---- MODULE Spec2Model ----
(***************************************************************************)
(* A model of the ecstasy / sparsey entity-component-system core:          *)
(*   - EntityAllocator, EntitySparseSet and EntityStorage                  *)
(*     (src/src/world/entity_storage.rs),                                  *)
(*   - TypeErasedSparseSet (src/src/data/type_erased_sparse_set2.rs),      *)
(*   - World (src/src/world/world.rs),                                     *)
(*   - DispatcherBuilder and Dispatcher (src/src/systems/dispatcher.rs),   *)
(*   - RegistryAccess and Commands::borrow (src/src/systems/registry.rs),  *)
(*   - QueryGroupInfo (src/src/components/group_info.rs),                  *)
(*   - ComponentView (src/src/query/component_view.rs).                    *)
(* Types whose source is not part of the tree (SparseArray, Entity,        *)
(* ComponentStorages, CommandBuffers, Commands, ChangeTicksFilter,         *)
(* ComponentRefMut) follow the specification.                              *)
(***************************************************************************)
EXTENDS Integers, Sequences, FiniteSets, TLC

(***************************************************************************)
(* Bounds of the model.                                                    *)
(***************************************************************************)
\* Stand-in for u32::MAX as the limit of EntityAllocator.current_id.
MaxId == 2
\* Stand-in for u32::MAX as the limit of an entity's version (NonZeroU32).
MaxVersion == 3
\* Number of threads that call create_atomic concurrently.
NThreads == 2
\* Cap on the number of exclusive operations of one behaviour of SpecEntities.
MaxOps == 5
\* Cap on the number of World operations of one behaviour of SpecWorld.
MaxWorldOps == 5
\* Cap on the number of steps added to a DispatcherBuilder.
MaxSteps == 4
\* Cap on the host's calls on the world before a run.
MaxHostOps == 2
\* Cap on the number of run_seq / run_par calls.
MaxRuns == 2
\* Cap on the commands a system queues in one run.
MaxCommands == 2
\* Number of worlds of the host.
NWorlds == 2
\* Cap on the world tick.
MaxTick == 2
MaxLen == 2
MaxQueryOps == 2
\* Cap on the number of steps of the builders of SpecRegister.
MaxSystems == 2
\* Cap on the number of World operations of one behaviour of SpecDestroy.
MaxDestroyOps == 4
\* Entities in the iterator handed to destroy_entities.
MaxDestroyed == 2
\* Storages whose entity slices a sparse query splits.
MaxSlices == 3
\* Spurious failures of compare_exchange_weak seen by one call.
MaxSpurious == 1
\* Steps of the builder that is merged into another.
MaxMerged == 2
\* Exclusive operations before the atomic allocations of SpecAtomic.
MaxAtomicOps == 3

(***************************************************************************)
(* Entity and IndexEntity (spec section 3).  Option<Entity> and            *)
(* Option<IndexEntity> use the NonZeroU32 niche: version 0 is None.        *)
(***************************************************************************)
Indexes == 0 .. (MaxId - 1)
Versions == 1 .. MaxVersion

NewEntity(i, v) == [index |-> i, version |-> v]
NoEntity == NewEntity(0, 0)
Entities == { NewEntity(i, v) : i \in Indexes, v \in Versions }

with_index(id) == NewEntity(id, 1)

with_next_version(entity) ==
    IF entity.version < MaxVersion
    THEN NewEntity(entity.index, entity.version + 1)
    ELSE NoEntity

IndexEntity(i, v) == [index |-> i, version |-> v]
NoneIE == IndexEntity(0, 0)

(***************************************************************************)
(* Sequence helpers: Rust Vec operations on 0-based positions.             *)
(***************************************************************************)
At(s, i) == s[i + 1]

Last(s) == s[Len(s)]

Pop(s) == SubSeq(s, 1, Len(s) - 1)

\* Vec::swap_remove(i): the last element takes position i.
swap_remove(s, i) ==
    IF i = Len(s) - 1
    THEN Pop(s)
    ELSE [ k \in 1 .. (Len(s) - 1) |-> IF k = i + 1 THEN Last(s) ELSE s[k] ]

\* Vec::swap(a, b).
VecSwap(s, a, b) ==
    [ k \in 1 .. Len(s) |->
        IF k = a + 1 THEN s[b + 1] ELSE IF k = b + 1 THEN s[a + 1] ELSE s[k] ]

SeqToSet(s) == { s[k] : k \in 1 .. Len(s) }

NoDuplicates(s) == \A i, j \in 1 .. Len(s) : s[i] = s[j] => i = j

(***************************************************************************)
(* SparseArray (spec sections 3 and 4.1): entity index -> Option<IndexEntity>. *)
(***************************************************************************)
SparseArray_default == [ i \in Indexes |-> NoneIE ]

\* get_index_entity: the slot, provided its version is the entity's.
SparseArray_get_index_entity(sparse, entity) ==
    IF sparse[entity.index] # NoneIE /\ sparse[entity.index].version = entity.version
    THEN sparse[entity.index]
    ELSE NoneIE

SparseArray_contains(sparse, entity) ==
    SparseArray_get_index_entity(sparse, entity) # NoneIE

\* remove: clears the slot when the version matches and returns the dense index.
SparseArray_remove(sparse, entity) ==
    IF SparseArray_contains(sparse, entity)
    THEN [ sparse |-> [sparse EXCEPT ![entity.index] = NoneIE],
           some   |-> TRUE,
           dense_index |-> sparse[entity.index].index ]
    ELSE [ sparse |-> sparse, some |-> FALSE, dense_index |-> 0 ]

\* swap_unchecked(a, b): exchanges the two slots.
SparseArray_swap_unchecked(sparse, a, b) ==
    [sparse EXCEPT ![a] = sparse[b], ![b] = sparse[a]]

(***************************************************************************)
(* EntitySparseSet (entity_storage.rs 68-113).                             *)
(***************************************************************************)
EntitySparseSet_default == [ sparse |-> SparseArray_default, entities |-> << >> ]

\* Outcomes of a write through get_unchecked_mut past the end of the Vec
\* (undefined behaviour): it lands in spare capacity and changes nothing that
\* the program reads, or the process dies.
UbOutcomes == { "spare", "crash" }

\* insert: an occupied slot overwrites the dense entry it names and keeps the
\* slot; an empty slot appends.
EntitySparseSet_insert(set, entity, ub) ==
    LET slot == set.sparse[entity.index] IN
    IF slot # NoneIE
    THEN IF slot.index < Len(set.entities)
         THEN [ set |-> [set EXCEPT !.entities[slot.index + 1] = entity],
                panic |-> FALSE ]
         ELSE [ set |-> set, panic |-> (ub = "crash") ]
    ELSE [ set |-> [ sparse |-> [set.sparse EXCEPT ![entity.index] =
                                    IndexEntity(Len(set.entities), entity.version)],
                     entities |-> Append(set.entities, entity) ],
           panic |-> FALSE ]

\* remove: sparse.remove, then the slot of the last entity is rewritten from
\* the list as it is before swap_remove, then swap_remove (which panics when
\* the index is out of bounds).
EntitySparseSet_remove(set, entity) ==
    LET r == SparseArray_remove(set.sparse, entity) IN
    IF ~r.some
    THEN [ set |-> set, ret |-> FALSE, panic |-> FALSE ]
    ELSE LET n == Len(set.entities)
             sparse2 == IF n > 0
                        THEN [r.sparse EXCEPT ![Last(set.entities).index] =
                                 IndexEntity(n - 1, Last(set.entities).version)]
                        ELSE r.sparse
         IN IF r.dense_index >= n
            THEN [ set |-> [set EXCEPT !.sparse = sparse2],
                   ret |-> FALSE, panic |-> TRUE ]
            ELSE [ set |-> [ sparse |-> sparse2,
                             entities |-> swap_remove(set.entities, r.dense_index) ],
                   ret |-> TRUE, panic |-> FALSE ]

EntitySparseSet_contains(set, entity) == SparseArray_contains(set.sparse, entity)

EntitySparseSet_clear == EntitySparseSet_default

(***************************************************************************)
(* EntityAllocator (entity_storage.rs 115-170).                            *)
(***************************************************************************)
EntityAllocator_default ==
    [ current_id |-> 0, last_id |-> 0, recycled |-> << >>, recycled_len |-> 0 ]

\* allocate: pops a recycled entity, else takes current_id unless the
\* increment overflows.
allocate(a) ==
    IF Len(a.recycled) > 0
    THEN [ a |-> [a EXCEPT !.recycled = Pop(a.recycled),
                           !.recycled_len = a.recycled_len - 1],
           ret |-> Last(a.recycled) ]
    ELSE IF a.current_id = MaxId
         THEN [ a |-> a, ret |-> NoEntity ]
         ELSE [ a |-> [a EXCEPT !.current_id = a.current_id + 1],
                ret |-> with_index(a.current_id) ]

\* deallocate: pushes the entity with its next version, if there is one.
deallocate(a, entity) ==
    IF with_next_version(entity) # NoEntity
    THEN [a EXCEPT !.recycled = Append(a.recycled, with_next_version(entity)),
                   !.recycled_len = a.recycled_len + 1]
    ELSE a

EntityAllocator_clear == EntityAllocator_default

\* The ids last_id .. current_id - 1 as entities.
NewIdRange(last_id, current_id) ==
    [ k \in 1 .. (current_id - last_id) |-> with_index(last_id + k - 1) ]

\* maintain: recycled_len := recycled.len(), last_id := current_id, and the
\* iterator drains recycled[remaining ..] (Vec::drain panics when remaining
\* is past the end) followed by the new ids.
EntityAllocator_maintain(a) ==
    LET remaining == a.recycled_len
        a1 == [a EXCEPT !.recycled_len = Len(a.recycled), !.last_id = a.current_id]
    IN IF remaining > Len(a.recycled)
       THEN [ a |-> a1, yielded |-> << >>, panic |-> TRUE ]
       ELSE [ a |-> [a1 EXCEPT !.recycled = SubSeq(a.recycled, 1, remaining)],
              yielded |-> SubSeq(a.recycled, remaining + 1, Len(a.recycled))
                            \o NewIdRange(a.last_id, a.current_id),
              panic |-> FALSE ]

\* allocate_atomic, taken at the successful compare-exchange of its loop.
allocate_atomic(a) ==
    IF a.recycled_len # 0
    THEN LET a1 == [a EXCEPT !.recycled_len = a.recycled_len - 1] IN
         IF a.recycled_len - 1 < Len(a.recycled)
         THEN [ a |-> a1, ret |-> At(a.recycled, a.recycled_len - 1), panic |-> FALSE ]
         ELSE [ a |-> a1, ret |-> NoEntity, panic |-> TRUE ]
    ELSE IF a.current_id # MaxId
         THEN [ a |-> [a EXCEPT !.current_id = a.current_id + 1],
                ret |-> with_index(a.current_id), panic |-> FALSE ]
         ELSE [ a |-> a, ret |-> NoEntity, panic |-> FALSE ]

(***************************************************************************)
(* EntityStorage (entity_storage.rs 5-60).  Every operation returns the    *)
(* new storage, its result and whether it panicked.                        *)
(***************************************************************************)
EntityStorage_default ==
    [ storage |-> EntitySparseSet_default, allocator |-> EntityAllocator_default ]

RECURSIVE InsertAll(_, _, _)
InsertAll(set, yielded, ub) ==
    IF yielded = << >>
    THEN [ set |-> set, panic |-> FALSE ]
    ELSE LET r == EntitySparseSet_insert(set, Head(yielded), ub) IN
         IF r.panic THEN r ELSE InsertAll(r.set, Tail(yielded), ub)

EntityStorage_maintain(es, ub) ==
    LET m == EntityAllocator_maintain(es.allocator) IN
    IF m.panic
    THEN [ es |-> [es EXCEPT !.allocator = m.a], panic |-> TRUE ]
    ELSE LET r == InsertAll(es.storage, m.yielded, ub) IN
         [ es |-> [ storage |-> r.set, allocator |-> m.a ], panic |-> r.panic ]

EntityStorage_create(es, ub) ==
    LET m == EntityStorage_maintain(es, ub) IN
    IF m.panic
    THEN [ es |-> m.es, ret |-> NoEntity, panic |-> TRUE ]
    ELSE LET al == allocate(m.es.allocator) IN
         IF al.ret = NoEntity
         THEN [ es |-> m.es, ret |-> NoEntity, panic |-> TRUE ]
         ELSE LET r == EntitySparseSet_insert(m.es.storage, al.ret, ub) IN
              [ es |-> [ storage |-> r.set, allocator |-> al.a ],
                ret |-> al.ret, panic |-> r.panic ]

EntityStorage_destroy(es, entity, ub) ==
    LET m == EntityStorage_maintain(es, ub) IN
    IF m.panic
    THEN [ es |-> m.es, ret |-> FALSE, panic |-> TRUE ]
    ELSE LET r == EntitySparseSet_remove(m.es.storage, entity) IN
         IF r.panic
         THEN [ es |-> [m.es EXCEPT !.storage = r.set], ret |-> FALSE, panic |-> TRUE ]
         ELSE IF r.ret
              THEN [ es |-> [ storage |-> r.set,
                              allocator |-> deallocate(m.es.allocator, entity) ],
                     ret |-> TRUE, panic |-> FALSE ]
              ELSE [ es |-> m.es, ret |-> FALSE, panic |-> FALSE ]

EntityStorage_clear ==
    [ storage |-> EntitySparseSet_clear, allocator |-> EntityAllocator_clear ]

EntityStorage_contains(es, entity) == EntitySparseSet_contains(es.storage, entity)

(***************************************************************************)
(* ComponentStorages and grouping (spec sections 3, 4.3 and 4.4).          *)
(* A typed storage is a sparse array and the dense list of the entities    *)
(* that own the component; payloads are left out.                          *)
(***************************************************************************)
Comps == { "A", "B", "C" }

TypedStorage_default == [ sparse |-> SparseArray_default, dense |-> << >> ]

TypedStorage_contains(s, entity) == SparseArray_contains(s.sparse, entity)

\* insert: overwrite when the slot is taken, else append.
TypedStorage_insert(s, entity) ==
    IF s.sparse[entity.index] # NoneIE
    THEN [ sparse |-> [s.sparse EXCEPT ![entity.index].version = entity.version],
           dense  |-> [s.dense EXCEPT ![s.sparse[entity.index].index + 1] = entity] ]
    ELSE [ sparse |-> [s.sparse EXCEPT ![entity.index] =
                          IndexEntity(Len(s.dense), entity.version)],
           dense  |-> Append(s.dense, entity) ]

\* swap(i, j): exchanges two dense positions and patches both sparse slots.
TypedStorage_swap(s, i, j) ==
    IF i = j THEN s
    ELSE [ sparse |-> [s.sparse EXCEPT ![At(s.dense, i).index].index = j,
                                       ![At(s.dense, j).index].index = i],
           dense  |-> VecSwap(s.dense, i, j) ]

\* remove: swap-remove with sparse patch of the moved entity.
TypedStorage_remove(s, entity) ==
    IF ~TypedStorage_contains(s, entity) THEN s
    ELSE LET i == s.sparse[entity.index].index
             moved == Last(s.dense)
             sp1 == [s.sparse EXCEPT ![moved.index].index = i]
         IN [ sparse |-> [sp1 EXCEPT ![entity.index] = NoneIE],
              dense  |-> swap_remove(s.dense, i) ]

\* A layout is a sequence of families; a family is a sequence of nested
\* component sets.  ComponentStorages keeps, per family, each group's
\* component set and its length.
NoLayout == << >>
LayoutAB == << << { "A", "B" } >> >>
LayoutABC == << << { "A", "B" }, { "A", "B", "C" } >> >>
Layouts == { NoLayout, LayoutAB, LayoutABC }

NewFamily(groups) == [ j \in 1 .. Len(groups) |-> [ comps |-> groups[j], len |-> 0 ] ]

\* ComponentStorages::new(layout, storages): the storages are kept, every
\* group starts empty.
ComponentStorages_new(layout, storages) ==
    [ storages |-> storages,
      families |-> [ f \in 1 .. Len(layout) |-> NewFamily(layout[f]) ] ]

ComponentStorages_default ==
    ComponentStorages_new(NoLayout, [ c \in Comps |-> TypedStorage_default ])

Satisfies(storages, comps, entity) ==
    \A c \in comps : TypedStorage_contains(storages[c], entity)

\* The entity sits inside the group's prefix in every storage of the group.
InPrefix(storages, group, entity) ==
    \A c \in group.comps : storages[c].sparse[entity.index].index < group.len

\* Moves the entity to dense position `to` in every storage of `comps`.
SwapInto(storages, comps, entity, to) ==
    [ c \in Comps |->
        IF c \in comps
        THEN TypedStorage_swap(storages[c], storages[c].sparse[entity.index].index, to)
        ELSE storages[c] ]

\* Groups the entity in family f, from the group of smallest arity on,
\* stopping at the first group it does not satisfy.
RECURSIVE GroupFrom(_, _, _, _)
GroupFrom(cs, f, j, entity) ==
    IF j > Len(cs.families[f]) THEN cs
    ELSE LET group == cs.families[f][j] IN
         IF ~Satisfies(cs.storages, group.comps, entity) THEN cs
         ELSE IF InPrefix(cs.storages, group, entity)
              THEN GroupFrom(cs, f, j + 1, entity)
              ELSE GroupFrom(
                     [ storages |-> SwapInto(cs.storages, group.comps, entity, group.len),
                       families |-> [cs.families EXCEPT ![f][j].len = group.len + 1] ],
                     f, j + 1, entity)

\* Ungroups the entity in family f from every group that shares a component
\* with `removed`, from the group of largest arity down.
RECURSIVE UngroupFrom(_, _, _, _, _)
UngroupFrom(cs, f, j, entity, removed) ==
    IF j < 1 THEN cs
    ELSE LET group == cs.families[f][j] IN
         IF /\ group.comps \cap removed # {}
            /\ Satisfies(cs.storages, group.comps, entity)
            /\ InPrefix(cs.storages, group, entity)
         THEN UngroupFrom(
                [ storages |-> SwapInto(cs.storages, group.comps, entity, group.len - 1),
                  families |-> [cs.families EXCEPT ![f][j].len = group.len - 1] ],
                f, j - 1, entity, removed)
         ELSE UngroupFrom(cs, f, j - 1, entity, removed)

RECURSIVE GroupFamilies(_, _, _)
GroupFamilies(cs, f, entity) ==
    IF f > Len(cs.families) THEN cs
    ELSE GroupFamilies(GroupFrom(cs, f, 1, entity), f + 1, entity)

RECURSIVE UngroupFamilies(_, _, _, _)
UngroupFamilies(cs, f, entity, removed) ==
    IF f > Len(cs.families) THEN cs
    ELSE UngroupFamilies(UngroupFrom(cs, f, Len(cs.families[f]), entity, removed),
                         f + 1, entity, removed)

\* group_all_components(entities): groups each entity of the slice in turn.
RECURSIVE group_all_components(_, _)
group_all_components(cs, list) ==
    IF list = << >> THEN cs
    ELSE group_all_components(GroupFamilies(cs, 1, Head(list)), Tail(list))

\* ungroup_all_components(entities).
RECURSIVE ungroup_all_components(_, _)
ungroup_all_components(cs, list) ==
    IF list = << >> THEN cs
    ELSE ungroup_all_components(UngroupFamilies(cs, 1, Head(list), Comps), Tail(list))

\* ComponentSet::insert: inserts every component, then groups the entity.
ComponentSet_insert(cs, entity, comps) ==
    GroupFamilies(
        [cs EXCEPT !.storages = [ c \in Comps |->
            IF c \in comps THEN TypedStorage_insert(cs.storages[c], entity)
            ELSE cs.storages[c] ]],
        1, entity)

\* remove_and_drop(entity) on every storage of `comps`.
RemoveFrom(cs, entity, comps) ==
    [cs EXCEPT !.storages = [ c \in Comps |->
        IF c \in comps THEN TypedStorage_remove(cs.storages[c], entity)
        ELSE cs.storages[c] ]]

\* ComponentSet::remove / delete: ungroups, then removes every component.
ComponentSet_remove(cs, entity, comps) ==
    RemoveFrom(UngroupFamilies(cs, 1, entity, comps), entity, comps)

(***************************************************************************)
(* World (world.rs).  Every operation returns the new world, its result    *)
(* and whether it panicked.                                                *)
(***************************************************************************)
World_default == [ entities |-> EntityStorage_default, storages |-> ComponentStorages_default ]

World_contains_entity(w, entity) == EntityStorage_contains(w.entities, entity)

\* set_layout: new ComponentStorages over the old storages, then
\* group_all_components over the entity slice of the EntityStorage.
World_set_layout(w, layout) ==
    [w EXCEPT !.storages =
        group_all_components(ComponentStorages_new(layout, w.storages.storages),
                             w.entities.storage.entities)]

\* insert_components: Err(NoSuchEntity) unless the entity is contained.
World_insert_components(w, entity, comps) ==
    IF ~World_contains_entity(w, entity)
    THEN [ w |-> w, ok |-> FALSE ]
    ELSE [ w |-> [w EXCEPT !.storages = ComponentSet_insert(w.storages, entity, comps)],
           ok |-> TRUE ]

\* create_entity: entities.create(), then insert_components, its result dropped.
World_create_entity(w, comps, ub) ==
    LET r == EntityStorage_create(w.entities, ub) IN
    IF r.panic
    THEN [ w |-> [w EXCEPT !.entities = r.es], ret |-> NoEntity, panic |-> TRUE ]
    ELSE [ w |-> World_insert_components([w EXCEPT !.entities = r.es], r.ret, comps).w,
           ret |-> r.ret, panic |-> FALSE ]

\* A destroy_entity that ungroups the entity and leaves its components.
World_destroy_entity_keeping_components(w, entity, ub) ==
    LET r == EntityStorage_destroy(w.entities, entity, ub) IN
    IF r.panic
    THEN [ w |-> [w EXCEPT !.entities = r.es], ret |-> FALSE, panic |-> TRUE ]
    ELSE IF ~r.ret
         THEN [ w |-> [w EXCEPT !.entities = r.es], ret |-> FALSE, panic |-> FALSE ]
         ELSE [ w |-> [ entities |-> r.es,
                        storages |-> ungroup_all_components(w.storages, << entity >>) ],
                ret |-> TRUE, panic |-> FALSE ]

\* destroy_entity: false when entities.destroy is false; else ungroup, then
\* remove_and_drop on every storage.
World_destroy_entity(w, entity, ub) ==
    LET r == EntityStorage_destroy(w.entities, entity, ub) IN
    IF r.panic
    THEN [ w |-> [w EXCEPT !.entities = r.es], ret |-> FALSE, panic |-> TRUE ]
    ELSE IF ~r.ret
         THEN [ w |-> [w EXCEPT !.entities = r.es], ret |-> FALSE, panic |-> FALSE ]
         ELSE [ w |-> [ entities |-> r.es,
                        storages |-> RemoveFrom(
                            ungroup_all_components(w.storages, << entity >>),
                            entity, Comps) ],
                ret |-> TRUE, panic |-> FALSE ]

\* The storages after remove_and_drop of every entity of the list.
RECURSIVE RemoveAll(_, _)
RemoveAll(cs, list) ==
    IF list = << >> THEN cs
    ELSE RemoveAll(RemoveFrom(cs, Head(list), Comps), Tail(list))

\* entities.map(|&entity| self.entities.destroy(entity) as usize).sum()
RECURSIVE DestroyAll(_, _, _, _)
DestroyAll(es, list, ub, sum) ==
    IF list = << >>
    THEN [ es |-> es, ret |-> sum, panic |-> FALSE ]
    ELSE LET r == EntityStorage_destroy(es, Head(list), ub) IN
         IF r.panic
         THEN [ es |-> r.es, ret |-> sum, panic |-> TRUE ]
         ELSE DestroyAll(r.es, Tail(list), ub, sum + (IF r.ret THEN 1 ELSE 0))

\* destroy_entities: ungroups every entity of the iterator, removes each
\* from every storage, then sums entities.destroy over the iterator.
World_destroy_entities(w, list, ub) ==
    LET r == DestroyAll(w.entities, list, ub, 0) IN
    [ w |-> [ entities |-> r.es,
              storages |-> RemoveAll(ungroup_all_components(w.storages, list), list) ],
      ret |-> r.ret, panic |-> r.panic ]

World_remove_components(w, entity, comps) ==
    [w EXCEPT !.storages = ComponentSet_remove(w.storages, entity, comps)]

\* maintain: entities.maintain().
World_maintain(w, ub) ==
    LET r == EntityStorage_maintain(w.entities, ub) IN
    [ w |-> [w EXCEPT !.entities = r.es], panic |-> r.panic ]

(***************************************************************************)
(* TypeErasedSparseSet (type_erased_sparse_set2.rs): sparse array, dense    *)
(* entities, per-slot flags and the type-erased component data.            *)
(***************************************************************************)
\* The component value stored for an entity.
ComponentOf(entity) == << "component", entity.index, entity.version >>

TypeErasedSparseSet_new ==
    [ sparse |-> SparseArray_default, dense |-> << >>, flags |-> << >>, data |-> << >> ]

TypeErasedSparseSet_clear == TypeErasedSparseSet_new

TypeErasedSparseSet_clear_flags(s) ==
    [s EXCEPT !.flags = [ k \in 1 .. Len(s.flags) |-> "empty" ]]

TypeErasedSparseSet_contains(s, entity) == SparseArray_contains(s.sparse, entity)

\* insert through the typed view (spec 4.3): overwrite when the slot is
\* taken, else append.
SparseSetRefMut_insert(s, entity, value) ==
    IF s.sparse[entity.index] # NoneIE
    THEN LET i == s.sparse[entity.index].index IN
         [ sparse |-> [s.sparse EXCEPT ![entity.index].version = entity.version],
           dense  |-> [s.dense EXCEPT ![i + 1] = entity],
           flags  |-> [s.flags EXCEPT ![i + 1] = "changed"],
           data   |-> [s.data EXCEPT ![i + 1] = value] ]
    ELSE [ sparse |-> [s.sparse EXCEPT ![entity.index] =
                          IndexEntity(Len(s.dense), entity.version)],
           dense  |-> Append(s.dense, entity),
           flags  |-> Append(s.flags, "added"),
           data   |-> Append(s.data, value) ]

\* swap(a, b): nothing when a = b; else the two sparse slots are exchanged
\* and dense, flags and data swap positions a and b.
TypeErasedSparseSet_swap(s, a, b) ==
    IF a = b THEN s
    ELSE [ sparse |-> SparseArray_swap_unchecked(s.sparse, At(s.dense, a).index,
                                                 At(s.dense, b).index),
           dense  |-> VecSwap(s.dense, a, b),
           flags  |-> VecSwap(s.flags, a, b),
           data   |-> VecSwap(s.data, a, b) ]

\* delete: nothing when the entity is absent; else swap_remove at its dense
\* index, the slot of the last entity receives the deleted entity's
\* IndexEntity, and the deleted entity's slot is cleared.
TypeErasedSparseSet_delete(s, entity) ==
    LET index_entity == SparseArray_get_index_entity(s.sparse, entity) IN
    IF index_entity = NoneIE THEN s
    ELSE IF s.dense = << >> THEN s
    ELSE LET last_index == Last(s.dense).index
             sp1 == [s.sparse EXCEPT ![last_index] = index_entity]
         IN [ sparse |-> [sp1 EXCEPT ![entity.index] = NoneIE],
              dense  |-> swap_remove(s.dense, index_entity.index),
              flags  |-> swap_remove(s.flags, index_entity.index),
              data   |-> swap_remove(s.data, index_entity.index) ]

(***************************************************************************)
(* RegistryAccess (registry.rs 9-35).                                      *)
(***************************************************************************)
Commands == [ kind |-> "Commands", id |-> "" ]
Comp(t) == [ kind |-> "Comp", id |-> t ]
CompMut(t) == [ kind |-> "CompMut", id |-> t ]
Res(t) == [ kind |-> "Res", id |-> t ]
ResMut(t) == [ kind |-> "ResMut", id |-> t ]

\* A conflict relation without the case of two exclusive component accesses.
ConflictsWithoutWriteWrite(self, other) ==
    CASE self.kind = "Comp" /\ other.kind = "CompMut" -> self.id = other.id
      [] self.kind = "CompMut" /\ other.kind = "Comp" -> self.id = other.id
      [] self.kind = "Res" /\ other.kind = "ResMut" -> self.id = other.id
      [] self.kind = "ResMut" /\ other.kind = "Res" -> self.id = other.id
      [] self.kind = "ResMut" /\ other.kind = "ResMut" -> self.id = other.id
      [] OTHER -> FALSE

conflicts(self, other) ==
    CASE self.kind = "Comp" /\ other.kind = "CompMut" -> self.id = other.id
      [] self.kind = "CompMut" /\ other.kind = "Comp" -> self.id = other.id
      [] self.kind = "CompMut" /\ other.kind = "CompMut" -> self.id = other.id
      [] self.kind = "Res" /\ other.kind = "ResMut" -> self.id = other.id
      [] self.kind = "ResMut" /\ other.kind = "Res" -> self.id = other.id
      [] self.kind = "ResMut" /\ other.kind = "ResMut" -> self.id = other.id
      [] OTHER -> FALSE

(***************************************************************************)
(* DispatcherBuilder::build (dispatcher.rs 55-61, 235-325).                *)
(* A system is its position in the builder and its list of accesses.       *)
(***************************************************************************)
\* The access lists of the systems that the model adds.
SystemAccesses ==
    { << CompMut("Hp"), Comp("HpRegen") >>,
      << CompMut("Position"), Comp("Velocity") >>,
      << Comp("Hp") >>,
      << Commands, CompMut("A") >>,
      << Commands, ResMut("R") >>,
      << Res("R") >>,
      << >> }

LocalSystemAccesses == { << Commands >>, << CompMut("Hp") >> }

SimpleStep(kind, id, accesses) == [ kind |-> kind, id |-> id, accesses |-> accesses ]
SimpleFlush == SimpleStep("FlushCommands", 0, << >>)

System(simple_step) == [ id |-> simple_step.id, accesses |-> simple_step.accesses ]

Step(kind, systems) == [ kind |-> kind, systems |-> systems ]
FlushCommands == Step("FlushCommands", << >>)

\* A conflict test that looks only at the system added last to the stage.
SystemsConflictLastOnly(systems, system) ==
    \E k \in 1 .. Len(Last(systems).accesses), l \in 1 .. Len(system.accesses) :
        conflicts(Last(systems).accesses[k], system.accesses[l])

\* systems.iter().flat_map(accesses).any(|a1| system.accesses().any(|a2| a1.conflicts(a2)))
SystemsConflict(systems, system) ==
    \E i \in 1 .. Len(systems) :
        \E k \in 1 .. Len(systems[i].accesses), l \in 1 .. Len(system.accesses) :
            conflicts(systems[i].accesses[k], system.accesses[l])

\* An iteration that opens a new stage for every Run system.
MergeStepWithoutMerge(steps, simple_step) ==
    LET last_kind == IF steps = << >> THEN "none" ELSE Last(steps).kind
        system == System(simple_step)
        push == [steps EXCEPT ![Len(steps)].systems = Append(@, system)]
    IN CASE simple_step.kind = "RunSystem" ->
              Append(steps, Step("RunSystems", << system >>))
         [] simple_step.kind = "RunLocalSystem" ->
              IF last_kind = "RunLocalSystems"
              THEN push
              ELSE Append(steps, Step("RunLocalSystems", << system >>))
         [] simple_step.kind = "RunLocalFn" ->
              IF last_kind = "RunLocalFns"
              THEN push
              ELSE Append(steps, Step("RunLocalFns", << system >>))
         [] simple_step.kind = "FlushCommands" ->
              IF last_kind \in { "FlushCommands", "none" }
              THEN steps
              ELSE Append(steps, FlushCommands)

\* One iteration of the loop of merge_and_optimize_steps.
MergeStep(steps, simple_step) ==
    LET last_kind == IF steps = << >> THEN "none" ELSE Last(steps).kind
        system == System(simple_step)
        push == [steps EXCEPT ![Len(steps)].systems = Append(@, system)]
    IN CASE simple_step.kind = "RunSystem" ->
              IF last_kind = "RunSystems"
              THEN IF SystemsConflict(Last(steps).systems, system)
                   THEN Append(steps, Step("RunSystems", << system >>))
                   ELSE push
              ELSE Append(steps, Step("RunSystems", << system >>))
         [] simple_step.kind = "RunLocalSystem" ->
              IF last_kind = "RunLocalSystems"
              THEN push
              ELSE Append(steps, Step("RunLocalSystems", << system >>))
         [] simple_step.kind = "RunLocalFn" ->
              IF last_kind = "RunLocalFns"
              THEN push
              ELSE Append(steps, Step("RunLocalFns", << system >>))
         [] simple_step.kind = "FlushCommands" ->
              IF last_kind \in { "FlushCommands", "none" }
              THEN steps
              ELSE Append(steps, FlushCommands)

RECURSIVE MergeAll(_, _)
MergeAll(steps, simple_steps) ==
    IF simple_steps = << >> THEN steps
    ELSE MergeAll(MergeStep(steps, Head(simple_steps)), Tail(simple_steps))

\* A merge that chains no terminal flush after the builder's steps.
merge_and_optimize_steps_without_terminal_flush(simple_steps) ==
    MergeAll(<< >>, simple_steps)

\* simple_steps.drain(..).chain(Some(SimpleStep::FlushCommands))
merge_and_optimize_steps(simple_steps) ==
    MergeAll(<< >>, Append(simple_steps, SimpleFlush))

RECURSIVE SumCommands(_)
SumCommands(accesses) ==
    IF accesses = << >> THEN 0
    ELSE (IF Head(accesses) = Commands THEN 1 ELSE 0) + SumCommands(Tail(accesses))

RECURSIVE count_command_buffers(_)
count_command_buffers(runnables) ==
    IF runnables = << >> THEN 0
    ELSE SumCommands(Head(runnables).accesses) + count_command_buffers(Tail(runnables))

Max(a, b) == IF a >= b THEN a ELSE b

\* The loop of required_command_buffers from step k on.
RECURSIVE RequiredFrom(_, _, _, _)
RequiredFrom(steps, k, max_buffer_count, buffer_count) ==
    IF k > Len(steps) THEN max_buffer_count
    ELSE CASE steps[k].kind \in { "RunSystems", "RunLocalSystems" } ->
                RequiredFrom(steps, k + 1, max_buffer_count,
                             buffer_count + count_command_buffers(steps[k].systems))
           [] steps[k].kind = "FlushCommands" ->
                RequiredFrom(steps, k + 1, Max(max_buffer_count, buffer_count), 0)
           [] OTHER -> RequiredFrom(steps, k + 1, max_buffer_count, buffer_count)

\* A count that takes the largest stage: buffer_count starts again at
\* every step.
required_command_buffers_of_largest_stage(steps) ==
    LET counts == { IF steps[k].kind \in { "RunSystems", "RunLocalSystems" }
                    THEN count_command_buffers(steps[k].systems) ELSE 0 :
                    k \in 1 .. Len(steps) }
    IN CHOOSE n \in counts \cup { 0 } : \A m \in counts : m <= n

required_command_buffers(steps) == RequiredFrom(steps, 1, 0, 0)

\* The loop of max_concurrecy from step k on, counting the stages of every kind.
RECURSIVE MaxConcurrencyOfAnyStageFrom(_, _, _)
MaxConcurrencyOfAnyStageFrom(steps, k, max_concurrecy_so_far) ==
    IF k > Len(steps) THEN max_concurrecy_so_far
    ELSE MaxConcurrencyOfAnyStageFrom(steps, k + 1,
                                      Max(max_concurrecy_so_far, Len(steps[k].systems)))

\* The loop of max_concurrecy from step k on.
RECURSIVE MaxConcurrencyFrom(_, _, _)
MaxConcurrencyFrom(steps, k, max_concurrecy_so_far) ==
    IF k > Len(steps) THEN max_concurrecy_so_far
    ELSE IF steps[k].kind = "RunSystems"
         THEN MaxConcurrencyFrom(steps, k + 1,
                                 Max(max_concurrecy_so_far, Len(steps[k].systems)))
         ELSE MaxConcurrencyFrom(steps, k + 1, max_concurrecy_so_far)

\* Dispatcher::max_concurrecy: the loop starts from 1.
max_concurrecy(steps) == MaxConcurrencyFrom(steps, 1, 1)

(***************************************************************************)
(* CommandBuffers and Commands (spec section 4.6): N FIFO buffers and the  *)
(* count of buffers handed out since the last drain.                       *)
(***************************************************************************)
CommandBuffers_new(n) == [ k \in 1 .. n |-> << >> ]

\* The command queued by Commands::create_entity: insert the components
\* into the entity that allocate_atomic returned.
CreateCommand(issuer, stage, entity, comps) ==
    [ issuer |-> issuer, stage |-> stage, entity |-> entity, comps |-> comps ]

\* drain(): every command, buffer after buffer, each buffer first in first out.
RECURSIVE CommandBuffers_drain(_)
CommandBuffers_drain(bufs) ==
    IF bufs = << >> THEN << >> ELSE Head(bufs) \o CommandBuffers_drain(Tail(bufs))

\* command(world) for every drained command, in order; the log keeps each
\* command with the result of its insert_components.
RECURSIVE ApplyCommands(_, _, _)
ApplyCommands(w, commands, log) ==
    IF commands = << >>
    THEN [ w |-> w, log |-> log ]
    ELSE LET r == World_insert_components(w, Head(commands).entity, Head(commands).comps) IN
         ApplyCommands(r.w, Tail(commands), Append(log, Head(commands)))

\* The systems of every stage, in stage order.
RECURSIVE AllSystems(_)
AllSystems(stages) ==
    IF stages = << >> THEN << >> ELSE Head(stages).systems \o AllSystems(Tail(stages))

SystemIds(stages) == { AllSystems(stages)[k].id : k \in 1 .. Len(AllSystems(stages)) }

(***************************************************************************)
(* State.                                                                  *)
(***************************************************************************)
VARIABLES
    world,      \* the World: entities (EntityStorage) and storages (ComponentStorages)
    panicked,   \* a panic (or crash) has ended the program
    tpc,        \* per thread: position inside allocate_atomic
    tprev,      \* per thread: the local `prev` of the compare-exchange loop
    handed,     \* entities returned by create_atomic since the last exclusive operation
    window,     \* recycled_len and current_id when the current shared window began
    last_call,  \* the last exclusive operation, its arguments and its result
    nops,       \* number of exclusive operations so far
    set,        \* a TypeErasedSparseSet
    prev_set,   \* the TypeErasedSparseSet before the last call on it
    simple_steps,  \* DispatcherBuilder.simple_steps
    built,         \* build() has returned a Dispatcher
    steps,         \* Dispatcher.steps
    buffer_count,  \* the number of buffers of Dispatcher.command_buffers
    run_call,      \* "none", or the last run_seq / run_par call; in progress while result is "none"
    step_index,    \* position of the run in Dispatcher.steps
    sys_pc,        \* per system of the current stage: "ready", "borrowed", "done"
    sys_buffer,    \* per system of the current stage: the buffer next() gave it, or 0
    sys_result,    \* per system of the current stage: "none", "ok", "err"
    next_buffer,   \* CommandBuffers: how many buffers next() has handed out
    buffers,       \* CommandBuffers: one FIFO of commands per buffer
    errors,        \* the local `errors` of the run: ids of the systems that erred
    result,        \* what the last run returned: "none", "Ok", "Err"
    ran,           \* per system id: how often it was run by the current call
    failed,        \* ids of the systems that returned an error in the current call
    flushed,       \* number of FlushCommands steps executed by the current call
    applied,       \* the commands applied by the flushes of the current call, in order
    nruns,         \* number of run_seq / run_par calls so far
    world_id,      \* World.id of the world held in `world`
    world_tick,    \* the tick of the world held in `world`
    parked,        \* per WorldId: the other worlds of the host and their ticks
    change_ticks,  \* Dispatcher.change_ticks: WorldId -> Ticks
    entry_tick,    \* the local `world_tick` of the run
    given,         \* per system id: the change_tick of the registry it was run with
    run_log,       \* per run: its world, world.tick() at entry and at return
    call_args,     \* the arguments of a call of a function taken on its own
    call_ret,      \* its result in a sequence, empty before the call
    live,          \* history: the entities created by the host and not destroyed since
    issued,        \* history: the entities issued since the last clear, in order
    view,          \* a ComponentView: the ticks of its storage and its two ticks
    last_get,      \* the last item asked of the view, and whether it was written through
    spurious       \* per thread: spurious failures of compare_exchange_weak in its current call

vars == << world, panicked, tpc, tprev, handed, window, last_call, nops, set, prev_set,
           simple_steps, built, steps, buffer_count,
           run_call, step_index, sys_pc, sys_buffer, sys_result, next_buffer, buffers,
           errors, result, ran, failed, flushed, applied, nruns,
           world_id, world_tick, parked, change_ticks, entry_tick, given, run_log,
           call_args, call_ret, live, issued, view, last_get, spurious >>

viewVars == << view, last_get >>

callVars == << call_args, call_ret, viewVars >>

historyVars == << live, issued >>

tickVars == << world_id, world_tick, parked, change_ticks, entry_tick, given, run_log >>

runVars == << run_call, step_index, sys_pc, sys_buffer, sys_result, next_buffer, buffers,
              errors, result, ran, failed, flushed, applied, nruns >>

builderVars == << simple_steps, built, steps, buffer_count >>

\* The variables of the parts that a specification leaves alone.
setVars == << set, prev_set >>
threadVars == << tpc, tprev, handed, window, spurious >>

Threads == 1 .. NThreads

WorldIds == 1 .. NWorlds

\* The registry of a system that has not run yet in this call.
NoTick == -1

\* A world that is not passed to the dispatcher at the moment.
Parked(w, tick) == [ world |-> w, tick |-> tick ]

\* World 1 is at hand, the other worlds are new; the dispatcher has run on none.
InitTickVars ==
    /\ world_id = 1
    /\ world_tick = 0
    /\ parked = [ id \in WorldIds |-> Parked(World_default, 0) ]
    /\ change_ticks = << >>
    /\ entry_tick = 0
    /\ given = [ id \in SystemIds(steps) |-> NoTick ]
    /\ run_log = << >>
    /\ call_args = << >>
    /\ call_ret = << >>
    /\ live = {}
    /\ issued = << >>
    /\ view = << >>
    /\ last_get = << >>

\* No run in progress, none made.
InitRunVars ==
    /\ run_call = "none"
    /\ step_index = 0
    /\ sys_pc = << >>
    /\ sys_buffer = << >>
    /\ sys_result = << >>
    /\ next_buffer = 0
    /\ buffers = << >>
    /\ errors = << >>
    /\ result = "none"
    /\ ran = << >>
    /\ failed = {}
    /\ flushed = 0
    /\ applied = << >>
    /\ nruns = 0
    /\ InitTickVars

NoCall == [ op |-> "none", entity |-> NoEntity, ret |-> FALSE ]
Call(op, entity, ret) == [ op |-> op, entity |-> entity, ret |-> ret ]

WindowOf(es) ==
    [ recycled_len |-> es.allocator.recycled_len, current_id |-> es.allocator.current_id ]

AllIdle == \A t \in Threads : tpc[t] = "idle"

(***************************************************************************)
(* SpecEntities: the EntityStorage of one world; exclusive operations      *)
(* (&mut self) run only while no create_atomic call is in flight (the      *)
(* borrow checker guarantees it); create_atomic calls interleave at their  *)
(* atomic steps.                                                           *)
(***************************************************************************)
InitEntities ==
    /\ world = World_default
    /\ panicked = FALSE
    /\ tpc = [ t \in Threads |-> "idle" ]
    /\ spurious = [ t \in Threads |-> 0 ]
    /\ tprev = [ t \in Threads |-> 0 ]
    /\ handed = << >>
    /\ window = WindowOf(EntityStorage_default)
    /\ last_call = NoCall
    /\ nops = 0
    /\ set = TypeErasedSparseSet_new
    /\ prev_set = TypeErasedSparseSet_new
    /\ simple_steps = << >>
    /\ built = FALSE
    /\ steps = << >>
    /\ buffer_count = 0
    /\ InitRunVars

Exclusive == ~panicked /\ AllIdle /\ nops < MaxOps

\* The common tail of every exclusive operation.
AfterExclusive(r, call) ==
    /\ world' = [world EXCEPT !.entities = r.es]
    /\ panicked' = r.panic
    /\ handed' = << >>
    /\ window' = WindowOf(r.es)
    /\ last_call' = call
    /\ nops' = nops + 1
    /\ issued' = CASE call.op = "create" /\ ~r.panic -> Append(issued, call.entity)
                    [] call.op = "clear" -> << >>
                    [] OTHER -> issued
    /\ UNCHANGED << tpc, tprev, spurious, setVars, builderVars, runVars, tickVars, callVars, live >>

Create ==
    /\ Exclusive
    /\ \E ub \in UbOutcomes :
         LET r == EntityStorage_create(world.entities, ub) IN
         AfterExclusive(r, Call("create", r.ret, ~r.panic))

Destroy ==
    /\ Exclusive
    /\ \E entity \in Entities, ub \in UbOutcomes :
         LET r == EntityStorage_destroy(world.entities, entity, ub) IN
         AfterExclusive(r, Call("destroy", entity, r.ret))

Maintain ==
    /\ Exclusive
    /\ \E ub \in UbOutcomes :
         LET r == EntityStorage_maintain(world.entities, ub) IN
         AfterExclusive(r, Call("maintain", NoEntity, ~r.panic))

Clear ==
    /\ Exclusive
    /\ AfterExclusive([ es |-> EntityStorage_clear, panic |-> FALSE ],
                      Call("clear", NoEntity, TRUE))

\* create_atomic, step 1: atomic_decrement_usize loads recycled_len.
AtomicBegin(t) ==
    /\ ~panicked
    /\ tpc[t] = "idle"
    /\ tpc' = [tpc EXCEPT ![t] = "dec"]
    /\ tprev' = [tprev EXCEPT ![t] = world.entities.allocator.recycled_len]
    /\ UNCHANGED << world, panicked, spurious, handed, window, last_call, nops, setVars, builderVars, runVars, tickVars, callVars, historyVars >>

\* atomic_decrement_usize: prev = 0 leaves the loop with None, and
\* atomic_increment_u32 loads current_id.
DecrementNone(t) ==
    /\ ~panicked
    /\ tpc[t] = "dec"
    /\ tprev[t] = 0
    /\ tpc' = [tpc EXCEPT ![t] = "inc"]
    /\ tprev' = [tprev EXCEPT ![t] = world.entities.allocator.current_id]
    /\ UNCHANGED << world, panicked, spurious, handed, window, last_call, nops, setVars, builderVars, runVars, tickVars, callVars, historyVars >>

\* atomic_decrement_usize: the compare-exchange succeeds; allocate_atomic
\* reads recycled[prev - 1] (a bounds-checked index) and returns it.
DecrementOk(t) ==
    /\ ~panicked
    /\ tpc[t] = "dec"
    /\ tprev[t] # 0
    /\ world.entities.allocator.recycled_len = tprev[t]
    /\ LET r == allocate_atomic(world.entities.allocator) IN
       /\ world' = [world EXCEPT !.entities.allocator = r.a]
       /\ panicked' = r.panic
       /\ handed' = IF r.panic THEN handed ELSE Append(handed, r.ret)
       /\ issued' = IF r.panic THEN issued ELSE Append(issued, r.ret)
    /\ tpc' = [tpc EXCEPT ![t] = "idle"]
    /\ tprev' = [tprev EXCEPT ![t] = 0]
    /\ spurious' = [spurious EXCEPT ![t] = 0]
    /\ UNCHANGED << window, last_call, nops, setVars, builderVars, runVars, tickVars, callVars, live >>

\* A failed compare-exchange whose Err(next_prev) is dropped: the loop goes
\* round with the value it loaded first.
DecrementRetry_keeping_prev(t) ==
    /\ ~panicked
    /\ tpc[t] = "dec"
    /\ tprev[t] # 0
    /\ UNCHANGED vars

\* atomic_decrement_usize: the compare-exchange fails and hands back the
\* current value (compare_exchange_weak may also fail spuriously).
DecrementRetry(t) ==
    /\ ~panicked
    /\ tpc[t] = "dec"
    /\ tprev[t] # 0
    /\ tprev' = [tprev EXCEPT ![t] = world.entities.allocator.recycled_len]
    /\ UNCHANGED << world, panicked, tpc, spurious, handed, window, last_call, nops, setVars, builderVars, runVars, tickVars, callVars, historyVars >>

\* atomic_increment_u32: prev = u32::MAX leaves the loop with None, and
\* create_atomic panics ("No entities left to allocate").
IncrementNone(t) ==
    /\ ~panicked
    /\ tpc[t] = "inc"
    /\ tprev[t] = MaxId
    /\ panicked' = TRUE
    /\ tpc' = [tpc EXCEPT ![t] = "idle"]
    /\ tprev' = [tprev EXCEPT ![t] = 0]
    /\ spurious' = [spurious EXCEPT ![t] = 0]
    /\ UNCHANGED << world, handed, window, last_call, nops, setVars, builderVars, runVars, tickVars, callVars, historyVars >>

\* atomic_increment_u32: the compare-exchange succeeds.
IncrementOk(t) ==
    /\ ~panicked
    /\ tpc[t] = "inc"
    /\ tprev[t] # MaxId
    /\ world.entities.allocator.current_id = tprev[t]
    /\ world' = [world EXCEPT !.entities.allocator.current_id = tprev[t] + 1]
    /\ handed' = Append(handed, with_index(tprev[t]))
    /\ issued' = Append(issued, with_index(tprev[t]))
    /\ tpc' = [tpc EXCEPT ![t] = "idle"]
    /\ tprev' = [tprev EXCEPT ![t] = 0]
    /\ spurious' = [spurious EXCEPT ![t] = 0]
    /\ UNCHANGED << panicked, window, last_call, nops, setVars, builderVars, runVars, tickVars, callVars, live >>

\* atomic_increment_u32: the compare-exchange fails.
IncrementRetry(t) ==
    /\ ~panicked
    /\ tpc[t] = "inc"
    /\ tprev[t] # MaxId
    /\ tprev' = [tprev EXCEPT ![t] = world.entities.allocator.current_id]
    /\ UNCHANGED << world, panicked, tpc, spurious, handed, window, last_call, nops, setVars, builderVars, runVars, tickVars, callVars, historyVars >>

NextEntities ==
    \/ Create
    \/ Destroy
    \/ Maintain
    \/ Clear
    \/ \E t \in Threads : AtomicBegin(t)
    \/ \E t \in Threads : DecrementNone(t)
    \/ \E t \in Threads : DecrementOk(t)
    \/ \E t \in Threads : DecrementRetry(t)
    \/ \E t \in Threads : IncrementNone(t)
    \/ \E t \in Threads : IncrementOk(t)
    \/ \E t \in Threads : IncrementRetry(t)

SpecEntities == InitEntities /\ [][NextEntities]_vars

(***************************************************************************)
(* SpecAtomic: entities are created and destroyed, then threads call       *)
(* create_atomic side by side, with no exclusive operation in between.  A  *)
(* compare_exchange_weak may fail although the counter holds the expected  *)
(* value; a call sees at most MaxSpurious such failures.  Every thread     *)
(* that is inside a call keeps taking steps.                               *)
(***************************************************************************)
\* compare_exchange_weak on recycled_len fails spuriously: Err(next_prev)
\* hands back the value that was expected, and the loop goes round.
DecrementSpurious(t) ==
    /\ ~panicked
    /\ tpc[t] = "dec"
    /\ tprev[t] # 0
    /\ world.entities.allocator.recycled_len = tprev[t]
    /\ spurious[t] < MaxSpurious
    /\ spurious' = [spurious EXCEPT ![t] = @ + 1]
    /\ UNCHANGED << world, panicked, tpc, tprev, handed, window, last_call, nops, setVars,
                    builderVars, runVars, tickVars, callVars, historyVars >>

\* The same on current_id.
IncrementSpurious(t) ==
    /\ ~panicked
    /\ tpc[t] = "inc"
    /\ tprev[t] # MaxId
    /\ world.entities.allocator.current_id = tprev[t]
    /\ spurious[t] < MaxSpurious
    /\ spurious' = [spurious EXCEPT ![t] = @ + 1]
    /\ UNCHANGED << world, panicked, tpc, tprev, handed, window, last_call, nops, setVars,
                    builderVars, runVars, tickVars, callVars, historyVars >>

\* The steps of thread t inside allocate_atomic that the scheduler owes it.
ThreadStep(t) ==
    \/ DecrementNone(t)
    \/ DecrementOk(t)
    \/ DecrementRetry(t)
    \/ IncrementNone(t)
    \/ IncrementOk(t)
    \/ IncrementRetry(t)

\* The exclusive phase before the threads start: up to MaxAtomicOps creations
\* and destructions of live entities.
SetUp == nops < MaxAtomicOps /\ handed = << >>

NextAtomic ==
    \/ SetUp /\ Create
    \/ SetUp /\ Destroy /\ last_call'.ret
    \/ \E t \in Threads : AtomicBegin(t)
    \/ \E t \in Threads : DecrementNone(t)
    \/ \E t \in Threads : DecrementOk(t)
    \/ \E t \in Threads : DecrementRetry(t)
    \/ \E t \in Threads : DecrementSpurious(t)
    \/ \E t \in Threads : IncrementNone(t)
    \/ \E t \in Threads : IncrementOk(t)
    \/ \E t \in Threads : IncrementRetry(t)
    \/ \E t \in Threads : IncrementSpurious(t)

SpecAtomic ==
    InitEntities /\ [][NextAtomic]_vars /\ \A t \in Threads : WF_vars(ThreadStep(t))

(***************************************************************************)
(* SpecWorld: the host calls the World's operations one at a time.         *)
(***************************************************************************)
\* Component sets handed to create_entity, insert_components and
\* remove_components.
ComponentSets == { {}, { "A" }, { "C" }, { "A", "B" }, { "A", "B", "C" } }

InitWorld ==
    /\ world = World_default
    /\ panicked = FALSE
    /\ tpc = [ t \in Threads |-> "idle" ]
    /\ spurious = [ t \in Threads |-> 0 ]
    /\ tprev = [ t \in Threads |-> 0 ]
    /\ handed = << >>
    /\ window = WindowOf(EntityStorage_default)
    /\ last_call = NoCall
    /\ nops = 0
    /\ set = TypeErasedSparseSet_new
    /\ prev_set = TypeErasedSparseSet_new
    /\ simple_steps = << >>
    /\ built = FALSE
    /\ steps = << >>
    /\ buffer_count = 0
    /\ InitRunVars

HostCall == ~panicked /\ nops < MaxWorldOps

AfterHostCall(w, panic, call) ==
    /\ world' = w
    /\ panicked' = panic
    /\ last_call' = call
    /\ nops' = nops + 1
    /\ live' = CASE call.op = "create_entity" /\ ~panic -> live \cup { call.entity }
                  [] call.op = "destroy_entity" /\ call.ret -> live \ { call.entity }
                  [] OTHER -> live
    /\ UNCHANGED << threadVars, setVars, builderVars, runVars, tickVars, callVars, issued >>

CreateEntity ==
    /\ HostCall
    /\ \E comps \in ComponentSets, ub \in UbOutcomes :
         LET r == World_create_entity(world, comps, ub) IN
         AfterHostCall(r.w, r.panic, Call("create_entity", r.ret, ~r.panic))

DestroyEntity ==
    /\ HostCall
    /\ \E entity \in Entities, ub \in UbOutcomes :
         LET r == World_destroy_entity(world, entity, ub) IN
         AfterHostCall(r.w, r.panic, Call("destroy_entity", entity, r.ret))

InsertComponents ==
    /\ HostCall
    /\ \E entity \in Entities, comps \in ComponentSets :
         LET r == World_insert_components(world, entity, comps) IN
         AfterHostCall(r.w, FALSE, Call("insert_components", entity, r.ok))

RemoveComponents ==
    /\ HostCall
    /\ \E entity \in Entities, comps \in ComponentSets :
         AfterHostCall(World_remove_components(world, entity, comps), FALSE,
                       Call("remove_components", entity, TRUE))

SetLayout ==
    /\ HostCall
    /\ \E layout \in Layouts :
         AfterHostCall(World_set_layout(world, layout), FALSE,
                       Call("set_layout", NoEntity, TRUE))

NextWorld ==
    \/ CreateEntity
    \/ DestroyEntity
    \/ InsertComponents
    \/ RemoveComponents
    \/ SetLayout

SpecWorld == InitWorld /\ [][NextWorld]_vars

\* SpecDestroy: the same host calls on the same new world, over the shorter
\* runs that a creation with components and its destruction need.
NextDestroy ==
    \/ nops < MaxDestroyOps /\ CreateEntity
    \/ nops < MaxDestroyOps /\ DestroyEntity
    \/ nops < MaxDestroyOps /\ InsertComponents
    \/ nops < MaxDestroyOps /\ RemoveComponents
    \/ nops < MaxDestroyOps /\ SetLayout

SpecDestroy == InitWorld /\ [][NextDestroy]_vars

(***************************************************************************)
(* SpecDestroyMany: the host creates entities with components and hands    *)
(* lists of entities, live or not, repeated or not, to destroy_entities.   *)
(***************************************************************************)
\* The iterators handed to destroy_entities.
EntityLists == UNION { [ 1 .. n -> Entities ] : n \in 0 .. MaxDestroyed }

\* world.destroy_entities(list); call_args keeps the list.
DestroyEntities ==
    /\ HostCall
    /\ \E list \in EntityLists, ub \in UbOutcomes :
         LET r == World_destroy_entities(world, list, ub) IN
         /\ world' = r.w
         /\ panicked' = r.panic
         /\ last_call' = Call("destroy_entities", NoEntity, r.ret)
         /\ nops' = nops + 1
         /\ call_args' = << list >>
         /\ live' = live \ SeqToSet(list)
    /\ UNCHANGED << threadVars, setVars, builderVars, runVars, tickVars,
                    call_ret, viewVars, issued >>

NextDestroyMany ==
    \/ nops < MaxDestroyOps /\ CreateEntity
    \/ nops < MaxDestroyOps /\ SetLayout
    \/ nops < MaxDestroyOps /\ DestroyEntities

SpecDestroyMany == InitWorld /\ [][NextDestroyMany]_vars

(***************************************************************************)
(* SpecSparseSet: one TypeErasedSparseSet under insert, delete, swap,      *)
(* clear and clear_flags.                                                  *)
(***************************************************************************)
InitSparseSet ==
    /\ world = World_default
    /\ panicked = FALSE
    /\ tpc = [ t \in Threads |-> "idle" ]
    /\ spurious = [ t \in Threads |-> 0 ]
    /\ tprev = [ t \in Threads |-> 0 ]
    /\ handed = << >>
    /\ window = WindowOf(EntityStorage_default)
    /\ last_call = NoCall
    /\ nops = 0
    /\ set = TypeErasedSparseSet_new
    /\ prev_set = TypeErasedSparseSet_new
    /\ simple_steps = << >>
    /\ built = FALSE
    /\ steps = << >>
    /\ buffer_count = 0
    /\ InitRunVars

AfterSetCall(s, call) ==
    /\ set' = s
    /\ prev_set' = set
    /\ last_call' = call
    /\ UNCHANGED << world, panicked, nops, threadVars, builderVars, runVars, tickVars, callVars, historyVars >>

SetInsert ==
    \E entity \in Entities :
        AfterSetCall(SparseSetRefMut_insert(set, entity, ComponentOf(entity)),
                     Call("insert", entity, TRUE))

SetDelete ==
    \E entity \in Entities :
        AfterSetCall(TypeErasedSparseSet_delete(set, entity),
                     Call("delete", entity, TypeErasedSparseSet_contains(set, entity)))

SetSwap ==
    \E a, b \in 0 .. (Len(set.dense) - 1) :
        AfterSetCall(TypeErasedSparseSet_swap(set, a, b), Call("swap", NoEntity, TRUE))

SetClear ==
    AfterSetCall(TypeErasedSparseSet_clear, Call("clear", NoEntity, TRUE))

SetClearFlags ==
    AfterSetCall(TypeErasedSparseSet_clear_flags(set), Call("clear_flags", NoEntity, TRUE))

NextSparseSet ==
    \/ SetInsert
    \/ SetDelete
    \/ SetSwap
    \/ SetClear
    \/ SetClearFlags

SpecSparseSet == InitSparseSet /\ [][NextSparseSet]_vars

(***************************************************************************)
(* SpecBuild: steps are added to a DispatcherBuilder, then build().        *)
(***************************************************************************)
InitBuild ==
    /\ world = World_default
    /\ panicked = FALSE
    /\ tpc = [ t \in Threads |-> "idle" ]
    /\ spurious = [ t \in Threads |-> 0 ]
    /\ tprev = [ t \in Threads |-> 0 ]
    /\ handed = << >>
    /\ window = WindowOf(EntityStorage_default)
    /\ last_call = NoCall
    /\ nops = 0
    /\ set = TypeErasedSparseSet_new
    /\ prev_set = TypeErasedSparseSet_new
    /\ simple_steps = << >>
    /\ built = FALSE
    /\ steps = << >>
    /\ buffer_count = 0
    /\ InitRunVars

CanAdd == ~built /\ Len(simple_steps) < MaxSteps

Push(simple_step) ==
    /\ simple_steps' = Append(simple_steps, simple_step)
    /\ UNCHANGED << world, panicked, last_call, nops, threadVars, setVars,
                    built, steps, buffer_count, runVars, tickVars, callVars, historyVars >>

add_system ==
    /\ CanAdd
    /\ \E accesses \in SystemAccesses :
         Push(SimpleStep("RunSystem", Len(simple_steps) + 1, accesses))

add_local_system ==
    /\ CanAdd
    /\ \E accesses \in LocalSystemAccesses :
         Push(SimpleStep("RunLocalSystem", Len(simple_steps) + 1, accesses))

add_local_fn ==
    /\ CanAdd
    /\ Push(SimpleStep("RunLocalFn", Len(simple_steps) + 1, << >>))

add_flush ==
    /\ CanAdd
    /\ Push(SimpleFlush)

build ==
    /\ ~built
    /\ built' = TRUE
    /\ steps' = merge_and_optimize_steps(simple_steps)
    /\ buffer_count' = required_command_buffers(merge_and_optimize_steps(simple_steps))
    /\ simple_steps' = << >>
    /\ UNCHANGED << world, panicked, last_call, nops, threadVars, setVars, runVars, tickVars, callVars, historyVars >>

\* dispatcher.max_concurrecy() on the built dispatcher.
MaxConcurrency ==
    /\ built
    /\ call_ret = << >>
    /\ call_ret' = << max_concurrecy(steps) >>
    /\ UNCHANGED << world, panicked, last_call, nops, threadVars, setVars, builderVars,
                    runVars, tickVars, call_args, viewVars, historyVars >>

NextBuild ==
    \/ add_system
    \/ add_local_system
    \/ add_local_fn
    \/ add_flush
    \/ build
    \/ MaxConcurrency

SpecBuild == InitBuild /\ [][NextBuild]_vars

(***************************************************************************)
(* SpecMerge: steps are added to a DispatcherBuilder, a second builder     *)
(* that holds steps of its own is merged into it at some point, more steps *)
(* may follow, then build().  The systems of the second builder have ids   *)
(* above MaxSteps.                                                         *)
(***************************************************************************)
\* What the host added to the second builder: << kind, accesses >> by step.
OtherAdds ==
    { << "RunSystem", << CompMut("Hp"), Comp("HpRegen") >> >>,
      << "RunLocalFn", << >> >>,
      << "FlushCommands", << >> >> }

\* The simple_steps of the second builder.
OtherBuilder(list) ==
    [ k \in 1 .. Len(list) |->
        IF list[k][1] = "FlushCommands" THEN SimpleFlush
        ELSE SimpleStep(list[k][1], MaxSteps + k, list[k][2]) ]

\* A merge that puts the steps of the other builder in front.
DispatcherBuilder_merge_in_front(self_steps, other_steps) ==
    [ self |-> other_steps \o self_steps, other |-> << >> ]

\* merge: self.simple_steps.append(&mut other.simple_steps), which moves
\* every element of other to the end of self and leaves other empty.
DispatcherBuilder_merge(self_steps, other_steps) ==
    [ self |-> self_steps \o other_steps, other |-> << >> ]

\* builder.merge(&mut other); call_args keeps the other builder as it was
\* before the call and as it is after it.
merge ==
    /\ ~built
    /\ call_args = << >>
    /\ \E n \in 1 .. MaxMerged : \E list \in [ 1 .. n -> OtherAdds ] :
         /\ Len(simple_steps) + n <= MaxSteps
         /\ LET r == DispatcherBuilder_merge(simple_steps, OtherBuilder(list)) IN
            /\ simple_steps' = r.self
            /\ call_args' = [ other |-> OtherBuilder(list), other_after |-> r.other ]
    /\ UNCHANGED << world, panicked, last_call, nops, threadVars, setVars,
                    built, steps, buffer_count, runVars, tickVars, call_ret, viewVars,
                    historyVars >>

NextMerge ==
    \/ add_system
    \/ add_local_system
    \/ add_local_fn
    \/ add_flush
    \/ merge
    \/ build

SpecMerge == InitBuild /\ [][NextMerge]_vars

(***************************************************************************)
(* SpecRun: the host prepares a world, then calls run_seq or run_par on a  *)
(* built Dispatcher.  The systems of a parallel stage interleave at their  *)
(* borrows, their queued commands and their returns; every other stage     *)
(* runs its systems one after the other.                                   *)
(***************************************************************************)
SysCommandsA == << Commands, CompMut("A") >>
SysCommandsR == << Commands, ResMut("R") >>
SysReadA == << Comp("A") >>
SysReadR == << Res("R") >>

\* simple_steps from a list of << kind, accesses >>, ids by position.
Program(list) ==
    [ k \in 1 .. Len(list) |->
        IF list[k][1] = "FlushCommands" THEN SimpleFlush
        ELSE SimpleStep(list[k][1], k, list[k][2]) ]

\* The dispatchers that the model runs.
Programs ==
    { Program(<< << "RunSystem", SysCommandsA >>, << "RunSystem", SysCommandsR >>,
                 << "FlushCommands", << >> >>, << "RunSystem", SysReadA >> >>),
      Program(<< << "RunSystem", SysCommandsA >>, << "RunSystem", SysReadA >>,
                 << "RunLocalSystem", << Commands >> >>, << "RunLocalFn", << >> >> >>),
      Program(<< << "RunLocalFn", << >> >>, << "RunSystem", SysReadR >>,
                 << "RunSystem", SysCommandsA >>, << "RunSystem", SysCommandsR >> >>),
      Program(<< << "RunSystem", << >> >>, << "RunSystem", << >> >>,
                 << "RunSystem", << >> >> >>) }

\* The dispatchers that SpecTicks runs: their systems queue no commands.
TickPrograms ==
    { Program(<< << "RunSystem", SysReadA >>, << "RunSystem", SysReadR >>,
                 << "RunLocalFn", << >> >>, << "RunSystem", SysReadA >> >>),
      Program(<< << "RunLocalSystem", << CompMut("Hp") >> >>, << "FlushCommands", << >> >>,
                 << "RunSystem", << >> >> >>) }

\* A new world and a dispatcher built from one of the programs.
InitRunOf(programs) ==
    /\ world = World_default
    /\ panicked = FALSE
    /\ tpc = [ t \in Threads |-> "idle" ]
    /\ spurious = [ t \in Threads |-> 0 ]
    /\ tprev = [ t \in Threads |-> 0 ]
    /\ handed = << >>
    /\ window = WindowOf(EntityStorage_default)
    /\ last_call = NoCall
    /\ nops = 0
    /\ set = TypeErasedSparseSet_new
    /\ prev_set = TypeErasedSparseSet_new
    /\ simple_steps = << >>
    /\ built = TRUE
    /\ \E program \in programs :
         /\ steps = merge_and_optimize_steps(program)
         /\ buffer_count = required_command_buffers(merge_and_optimize_steps(program))
         /\ buffers = CommandBuffers_new(required_command_buffers(merge_and_optimize_steps(program)))
    /\ run_call = "none"
    /\ step_index = 0
    /\ sys_pc = << >>
    /\ sys_buffer = << >>
    /\ sys_result = << >>
    /\ next_buffer = 0
    /\ errors = << >>
    /\ result = "none"
    /\ ran = [ id \in SystemIds(steps) |-> 0 ]
    /\ failed = {}
    /\ flushed = 0
    /\ applied = << >>
    /\ nruns = 0
    /\ InitTickVars

InitRun == InitRunOf(Programs)

InitTicks == InitRunOf(TickPrograms)

\* A run is in progress.
Active == run_call # "none" /\ result = "none"

otherVars == << threadVars, setVars, builderVars, last_call, callVars, historyVars >>

\* The host's calls on the world before the first run.
HostReady == ~panicked /\ nruns = 0 /\ nops < MaxHostOps

HostCreateEntity ==
    /\ HostReady
    /\ \E comps \in { {}, { "A" } }, ub \in UbOutcomes :
         LET r == World_create_entity(world, comps, ub) IN
         /\ world' = r.w
         /\ panicked' = r.panic
    /\ nops' = nops + 1
    /\ UNCHANGED << otherVars, runVars, tickVars >>

HostDestroyEntity ==
    /\ HostReady
    /\ \E entity \in Entities, ub \in UbOutcomes :
         LET r == World_destroy_entity(world, entity, ub) IN
         /\ world' = r.w
         /\ panicked' = r.panic
    /\ nops' = nops + 1
    /\ UNCHANGED << otherVars, runVars, tickVars >>

\* world.increment_tick(), called by the host between runs.
HostIncrementTick ==
    /\ ~panicked
    /\ ~Active
    /\ world_tick < MaxTick
    /\ world_tick' = world_tick + 1
    /\ UNCHANGED << world, panicked, nops, otherVars, runVars,
                    world_id, parked, change_ticks, entry_tick, given, run_log >>

\* run_seq / run_par, up to the loop over the steps: world_tick = world.tick()
\* and change_ticks.entry(world.id()).or_default().
RunBegin(mode, id) ==
    /\ ~panicked
    /\ ~Active
    /\ nruns < MaxRuns
    /\ world_id' = id
    /\ world' = IF id = world_id THEN world ELSE parked[id].world
    /\ world_tick' = IF id = world_id THEN world_tick ELSE parked[id].tick
    /\ parked' = IF id = world_id THEN parked
                 ELSE [parked EXCEPT ![world_id] = Parked(world, world_tick),
                                     ![id] = Parked(World_default, 0)]
    /\ entry_tick' = IF id = world_id THEN world_tick ELSE parked[id].tick
    /\ change_ticks' = IF id \in DOMAIN change_ticks THEN change_ticks
                       ELSE (id :> 0) @@ change_ticks
    /\ given' = [ sid \in SystemIds(steps) |-> NoTick ]
    /\ run_log' = Append(run_log,
                         [ world |-> id,
                           tick |-> IF id = world_id THEN world_tick ELSE parked[id].tick,
                           exit |-> NoTick ])
    /\ run_call' = mode
    /\ nruns' = nruns + 1
    /\ step_index' = 1
    /\ errors' = << >>
    /\ result' = "none"
    /\ ran' = [ sid \in SystemIds(steps) |-> 0 ]
    /\ failed' = {}
    /\ flushed' = 0
    /\ applied' = << >>
    /\ UNCHANGED << panicked, nops, otherVars,
                    sys_pc, sys_buffer, sys_result, next_buffer, buffers >>

\* A run on the world at hand.
run_seq == RunBegin("run_seq", world_id)

run_par == RunBegin("run_par", world_id)

\* A run on any world of the host.
run_seq_on_world == \E id \in WorldIds : RunBegin("run_seq", id)

run_par_on_world == \E id \in WorldIds : RunBegin("run_par", id)

InRun == ~panicked /\ Active /\ step_index <= Len(steps)

CurrentStep == steps[step_index]

\* run_systems_seq, or run_systems_par for a RunSystems stage of run_par
\* with more than one system.
Sequential ==
    \/ run_call = "run_seq"
    \/ CurrentStep.kind # "RunSystems"
    \/ Len(CurrentStep.systems) <= 1

\* A registry that carries the world tick read at entry.
RegistryEntryTick == entry_tick

\* The change_tick of Registry::new: *change_tick, the entry of
\* change_ticks for the world of the run.
RegistryChangeTick == change_ticks[world_id]

\* Registry::new for a stage of systems or local systems; a local fn stage
\* starts the same way, without a registry.
StageBegin ==
    /\ InRun
    /\ CurrentStep.kind # "FlushCommands"
    /\ sys_pc = << >>
    /\ sys_pc' = [ i \in 1 .. Len(CurrentStep.systems) |-> "ready" ]
    /\ sys_buffer' = [ i \in 1 .. Len(CurrentStep.systems) |-> 0 ]
    /\ sys_result' = [ i \in 1 .. Len(CurrentStep.systems) |-> "none" ]
    /\ UNCHANGED << world, panicked, nops, otherVars, tickVars, run_call, step_index, next_buffer,
                    buffers, errors, result, ran, failed, flushed, applied, nruns >>

\* System i of the stage may start: in a sequential stage only after the
\* systems before it.
CanStart(i) ==
    /\ InRun
    /\ i \in DOMAIN sys_pc
    /\ sys_pc[i] = "ready"
    /\ Sequential => \A j \in 1 .. (i - 1) : sys_pc[j] = "done"

\* sys.run(&registry), the borrows: every Commands access takes
\* command_buffers.next().unwrap().
SystemBorrow(i) ==
    /\ CanStart(i)
    /\ CurrentStep.kind \in { "RunSystems", "RunLocalSystems" }
    /\ LET n == SumCommands(CurrentStep.systems[i].accesses) IN
       IF next_buffer + n > buffer_count
       THEN /\ panicked' = TRUE
            /\ UNCHANGED << sys_pc, sys_buffer, next_buffer >>
       ELSE /\ panicked' = FALSE
            /\ sys_pc' = [sys_pc EXCEPT ![i] = "borrowed"]
            /\ sys_buffer' = [sys_buffer EXCEPT ![i] = IF n = 0 THEN 0 ELSE next_buffer + 1]
            /\ next_buffer' = next_buffer + n
    /\ given' = [given EXCEPT ![CurrentStep.systems[i].id] = RegistryChangeTick]
    /\ UNCHANGED << world_id, world_tick, parked, change_ticks, entry_tick, run_log >>
    /\ UNCHANGED << world, nops, otherVars, run_call, step_index, sys_result, buffers,
                    errors, result, ran, failed, flushed, applied, nruns >>

\* The body of a system that holds Commands: commands.create_entity((A,)).
SystemQueue(i) ==
    /\ InRun
    /\ i \in DOMAIN sys_pc
    /\ sys_pc[i] = "borrowed"
    /\ sys_buffer[i] # 0
    /\ Len(buffers[sys_buffer[i]]) < MaxCommands
    /\ LET r == allocate_atomic(world.entities.allocator) IN
       /\ r.panic \/ r.ret # NoEntity
       /\ world' = [world EXCEPT !.entities.allocator = r.a]
       /\ panicked' = r.panic
       /\ buffers' = IF r.panic THEN buffers
                     ELSE [buffers EXCEPT ![sys_buffer[i]] =
                             Append(@, CreateCommand(CurrentStep.systems[i].id, step_index,
                                                     r.ret, { "A" }))]
    /\ UNCHANGED << nops, otherVars, tickVars, run_call, step_index, sys_pc, sys_buffer, sys_result,
                    next_buffer, errors, result, ran, failed, flushed, applied, nruns >>

\* The system has run and its result is res.  In a sequential stage
\* errors.extend takes the error at once.
Finish(i, res) ==
    LET id == CurrentStep.systems[i].id IN
    /\ sys_pc' = [sys_pc EXCEPT ![i] = "done"]
    /\ sys_result' = [sys_result EXCEPT ![i] = res]
    /\ ran' = [ran EXCEPT ![id] = @ + 1]
    /\ failed' = IF res = "err" THEN failed \cup { id } ELSE failed
    /\ errors' = IF Sequential /\ res = "err" THEN Append(errors, id) ELSE errors
    /\ UNCHANGED << world, panicked, nops, otherVars, run_call, step_index, sys_buffer,
                    next_buffer, buffers, result, flushed, applied, nruns >>

SystemReturn(i) ==
    /\ InRun
    /\ i \in DOMAIN sys_pc
    /\ sys_pc[i] = "borrowed"
    /\ \E res \in { "ok", "err" } : Finish(i, res)
    /\ UNCHANGED tickVars

\* run_local_fns: sys.run(world) for the local fns in order.  A local fn
\* holds &mut World and may call world.increment_tick().
LocalFnRun(i) ==
    /\ CanStart(i)
    /\ CurrentStep.kind = "RunLocalFns"
    /\ \E res \in { "ok", "err" } : Finish(i, res)
    /\ \E ticks \in { 0, 1 } :
         /\ world_tick + ticks <= MaxTick
         /\ world_tick' = world_tick + ticks
    /\ UNCHANGED << world_id, parked, change_ticks, entry_tick, given, run_log >>

\* A collect that returns the errors of a parallel stage last system first.
RECURSIVE CollectReversed(_, _)
CollectReversed(systems, results) ==
    IF systems = << >> THEN << >>
    ELSE CollectReversed(Tail(systems), Tail(results))
            \o (IF Head(results) = "err" THEN << Head(systems).id >> ELSE << >>)

\* The errors of a parallel stage, collected in the order of the systems.
RECURSIVE Collect(_, _)
Collect(systems, results) ==
    IF systems = << >> THEN << >>
    ELSE (IF Head(results) = "err" THEN << Head(systems).id >> ELSE << >>)
            \o Collect(Tail(systems), Tail(results))

\* A stage that ends at the first error and skips the systems not yet run.
StageEndOnError ==
    /\ InRun
    /\ sys_pc # << >>
    /\ \A i \in DOMAIN sys_pc : sys_pc[i] # "borrowed"
    /\ \/ \A i \in DOMAIN sys_pc : sys_pc[i] = "done"
       \/ \E i \in DOMAIN sys_pc : sys_result[i] = "err"
    /\ errors' = IF Sequential THEN errors
                 ELSE errors \o Collect(CurrentStep.systems, sys_result)
    /\ step_index' = step_index + 1
    /\ sys_pc' = << >>
    /\ sys_buffer' = << >>
    /\ sys_result' = << >>
    /\ UNCHANGED << world, panicked, nops, otherVars, tickVars, run_call, next_buffer, buffers,
                    result, ran, failed, flushed, applied, nruns >>

\* A stage that ends once every system was started, without waiting for
\* their returns.
StageEndWithoutJoin ==
    /\ InRun
    /\ sys_pc # << >>
    /\ \A i \in DOMAIN sys_pc : sys_pc[i] # "ready"
    /\ errors' = IF Sequential THEN errors
                 ELSE errors \o Collect(CurrentStep.systems, sys_result)
    /\ step_index' = step_index + 1
    /\ sys_pc' = << >>
    /\ sys_buffer' = << >>
    /\ sys_result' = << >>
    /\ UNCHANGED << world, panicked, nops, otherVars, tickVars, run_call, next_buffer, buffers,
                    result, ran, failed, flushed, applied, nruns >>

\* The stage is over: a parallel stage extends errors with what it
\* collected; the loop moves to the next step.
StageEnd ==
    /\ InRun
    /\ sys_pc # << >>
    /\ \A i \in DOMAIN sys_pc : sys_pc[i] = "done"
    /\ errors' = IF Sequential THEN errors
                 ELSE errors \o Collect(CurrentStep.systems, sys_result)
    /\ step_index' = step_index + 1
    /\ sys_pc' = << >>
    /\ sys_buffer' = << >>
    /\ sys_result' = << >>
    /\ UNCHANGED << world, panicked, nops, otherVars, tickVars, run_call, next_buffer, buffers,
                    result, ran, failed, flushed, applied, nruns >>

\* A flush that applies the queued commands and only then calls maintain.
FlushBeforeMaintain ==
    /\ InRun
    /\ CurrentStep.kind = "FlushCommands"
    /\ \E ub \in UbOutcomes :
         LET r == ApplyCommands(world, CommandBuffers_drain(buffers), << >>)
             m == World_maintain(r.w, ub)
         IN IF m.panic
            THEN /\ world' = m.w
                 /\ panicked' = TRUE
                 /\ UNCHANGED << buffers, next_buffer, applied, flushed, step_index >>
            ELSE /\ world' = m.w
                 /\ panicked' = FALSE
                 /\ buffers' = CommandBuffers_new(buffer_count)
                 /\ next_buffer' = 0
                 /\ applied' = applied \o r.log
                 /\ flushed' = flushed + 1
                 /\ step_index' = step_index + 1
    /\ UNCHANGED << nops, otherVars, tickVars, run_call, sys_pc, sys_buffer, sys_result,
                    errors, result, ran, failed, nruns >>

\* Step::FlushCommands: world.maintain(), then every drained command.
Flush ==
    /\ InRun
    /\ CurrentStep.kind = "FlushCommands"
    /\ \E ub \in UbOutcomes :
         LET m == World_maintain(world, ub)
             r == ApplyCommands(m.w, CommandBuffers_drain(buffers), << >>)
         IN IF m.panic
            THEN /\ world' = m.w
                 /\ panicked' = TRUE
                 /\ UNCHANGED << buffers, next_buffer, applied, flushed, step_index >>
            ELSE /\ world' = r.w
                 /\ panicked' = FALSE
                 /\ buffers' = CommandBuffers_new(buffer_count)
                 /\ next_buffer' = 0
                 /\ applied' = applied \o r.log
                 /\ flushed' = flushed + 1
                 /\ step_index' = step_index + 1
    /\ UNCHANGED << nops, otherVars, tickVars, run_call, sys_pc, sys_buffer, sys_result,
                    errors, result, ran, failed, nruns >>

\* A store of world.tick() as it is when the run ends.
StoredTickAtReturn == world_tick

\* *change_tick = world_tick: the tick read when the run was entered.
StoredTick == entry_tick

\* A return that leaves the loop before the last step of the dispatcher.
RunReturnBeforeLastStep ==
    /\ ~panicked
    /\ Active
    /\ step_index >= Len(steps)
    /\ sys_pc = << >>
    /\ result' = IF errors # << >> THEN "Err" ELSE "Ok"
    /\ change_ticks' = [change_ticks EXCEPT ![world_id] = StoredTick]
    /\ run_log' = [run_log EXCEPT ![Len(run_log)].exit = world_tick]
    /\ UNCHANGED << world_id, world_tick, parked, entry_tick, given >>
    /\ UNCHANGED << world, panicked, nops, otherVars, run_call, step_index, sys_pc, sys_buffer,
                    sys_result, next_buffer, buffers, errors, ran, failed, flushed,
                    applied, nruns >>

\* After the last step: *change_tick = world_tick, then
\* Err(RunError::from(errors)) or Ok(()).
RunReturn ==
    /\ ~panicked
    /\ Active
    /\ step_index > Len(steps)
    /\ result' = IF errors # << >> THEN "Err" ELSE "Ok"
    /\ change_ticks' = [change_ticks EXCEPT ![world_id] = StoredTick]
    /\ run_log' = [run_log EXCEPT ![Len(run_log)].exit = world_tick]
    /\ UNCHANGED << world_id, world_tick, parked, entry_tick, given >>
    /\ UNCHANGED << world, panicked, nops, otherVars, run_call, step_index, sys_pc, sys_buffer,
                    sys_result, next_buffer, buffers, errors, ran, failed, flushed,
                    applied, nruns >>

\* Positions of the systems of a stage.
StageSlots == 1 .. MaxSteps

NextRun ==
    \/ HostCreateEntity
    \/ HostDestroyEntity
    \/ run_seq
    \/ run_par
    \/ StageBegin
    \/ \E i \in StageSlots : SystemBorrow(i)
    \/ \E i \in StageSlots : SystemQueue(i)
    \/ \E i \in StageSlots : SystemReturn(i)
    \/ \E i \in StageSlots : LocalFnRun(i)
    \/ StageEnd
    \/ Flush
    \/ RunReturn

SpecRun == InitRun /\ [][NextRun]_vars

(***************************************************************************)
(* SpecTicks: the host has several worlds, increments their ticks between  *)
(* runs and runs the dispatcher on any of them; the systems queue no       *)
(* commands.                                                               *)
(***************************************************************************)
NextTicks ==
    \/ HostIncrementTick
    \/ run_seq_on_world
    \/ run_par_on_world
    \/ StageBegin
    \/ \E i \in StageSlots : SystemBorrow(i)
    \/ \E i \in StageSlots : SystemReturn(i)
    \/ \E i \in StageSlots : LocalFnRun(i)
    \/ StageEnd
    \/ Flush
    \/ RunReturn

SpecTicks == InitTicks /\ [][NextTicks]_vars

(***************************************************************************)
(* SpecConflicts: RegistryAccess::conflicts on every pair of accesses over *)
(* two types, each usable as a component and as a resource.                *)
(***************************************************************************)
AccessTypes == { "T", "U" }

Accesses ==
    { Commands } \cup { Comp(t) : t \in AccessTypes } \cup { CompMut(t) : t \in AccessTypes }
                 \cup { Res(t) : t \in AccessTypes } \cup { ResMut(t) : t \in AccessTypes }

\* Every variable but the call's, as in a program that has done nothing.
InitOutsideCall ==
    /\ world = World_default
    /\ panicked = FALSE
    /\ tpc = [ t \in Threads |-> "idle" ]
    /\ spurious = [ t \in Threads |-> 0 ]
    /\ tprev = [ t \in Threads |-> 0 ]
    /\ handed = << >>
    /\ window = WindowOf(EntityStorage_default)
    /\ last_call = NoCall
    /\ nops = 0
    /\ set = TypeErasedSparseSet_new
    /\ prev_set = TypeErasedSparseSet_new
    /\ simple_steps = << >>
    /\ built = FALSE
    /\ steps = << >>
    /\ buffer_count = 0
    /\ run_call = "none"
    /\ step_index = 0
    /\ sys_pc = << >>
    /\ sys_buffer = << >>
    /\ sys_result = << >>
    /\ next_buffer = 0
    /\ buffers = << >>
    /\ errors = << >>
    /\ result = "none"
    /\ ran = << >>
    /\ failed = {}
    /\ flushed = 0
    /\ applied = << >>
    /\ nruns = 0
    /\ world_id = 1
    /\ world_tick = 0
    /\ parked = [ id \in WorldIds |-> Parked(World_default, 0) ]
    /\ change_ticks = << >>
    /\ entry_tick = 0
    /\ given = << >>
    /\ run_log = << >>
    /\ live = {}
    /\ issued = << >>

outsideCall ==
    << world, panicked, last_call, nops, threadVars, setVars, builderVars, runVars, tickVars,
       historyVars >>

InitConflicts ==
    /\ InitOutsideCall
    /\ view = << >>
    /\ last_get = << >>
    /\ call_args \in [ self : Accesses, other : Accesses ]
    /\ call_ret = << >>

CallConflicts ==
    /\ call_ret = << >>
    /\ call_ret' = << conflicts(call_args.self, call_args.other) >>
    /\ UNCHANGED << call_args, viewVars, outsideCall >>

NextConflicts == CallConflicts

SpecConflicts == InitConflicts /\ [][NextConflicts]_vars

(***************************************************************************)
(* SpecGroupRange: QueryGroupInfo::group_range on every query of up to     *)
(* 1 + MaxQueryOps views over two group families.  A family is its list of *)
(* groups by increasing arity (spec section 2); a group is its arity, the  *)
(* arity of the group before it and its length.                            *)
(***************************************************************************)
\* The components of each family, in the order of their bits.
FamilyComponents == << << "A", "B", "C" >>, << "D", "E" >> >>

\* The arities of the groups of each family: {A,B} and {A,B,C}; {D,E}.
FamilyArities == << << 2, 3 >>, << 2 >> >>

GroupedComponents ==
    UNION { SeqToSet(FamilyComponents[f]) : f \in 1 .. Len(FamilyComponents) }

\* StorageMask::from_to(from, to): the bits from .. to - 1.
from_to(from, to) == from .. (to - 1)

\* QueryMask::new(include, exclude)
QueryMask_new(include, exclude) == [ include |-> include, exclude |-> exclude ]

\* QueryMask::include(arity)
QueryMask_include(arity) == QueryMask_new(from_to(0, arity), {})

\* QueryMask::exclude(prev_arity, arity)
QueryMask_exclude(prev_arity, arity) ==
    QueryMask_new(from_to(0, prev_arity), from_to(prev_arity, arity))

\* query_mask.include(storage_mask) and query_mask.exclude(storage_mask)
QueryMask_with_include(mask, storage_mask) ==
    QueryMask_new(mask.include \cup storage_mask, mask.exclude)

QueryMask_with_exclude(mask, storage_mask) ==
    QueryMask_new(mask.include, mask.exclude \cup storage_mask)

\* A group of a family.
Group(prev_arity, arity, len) == [ prev_arity |-> prev_arity, arity |-> arity, len |-> len ]

Group_include_mask(group) == QueryMask_include(group.arity)
Group_exclude_mask(group) == QueryMask_exclude(group.prev_arity, group.arity)

\* The groups of family f with the given lengths.
GroupFamily(f, lens) ==
    [ k \in 1 .. Len(FamilyArities[f]) |->
        Group(IF k = 1 THEN 0 ELSE FamilyArities[f][k - 1], FamilyArities[f][k], lens[k]) ]

\* The bit of a component in its family.
BitOf(f, comp) == (CHOOSE k \in 1 .. Len(FamilyComponents[f]) : FamilyComponents[f][k] = comp) - 1

ComponentGroupInfo_new(group_family, group_offset, storage_mask) ==
    [ group_family |-> group_family, group_offset |-> group_offset,
      storage_mask |-> storage_mask ]

\* The ComponentGroupInfo of the storage of a component: its family, the
\* offset of the first group that holds it, and its bit.
ComponentGroupInfoOf(comp) ==
    LET f == CHOOSE g \in 1 .. Len(FamilyComponents) : comp \in SeqToSet(FamilyComponents[g])
        offset == (CHOOSE k \in 1 .. Len(FamilyArities[f]) :
                      /\ BitOf(f, comp) < FamilyArities[f][k]
                      /\ \A j \in 1 .. (k - 1) : BitOf(f, comp) >= FamilyArities[f][j]) - 1
    IN ComponentGroupInfo_new(f, offset, { BitOf(f, comp) })

QueryGroupInfo_new(info) ==
    [ group_family |-> info.group_family,
      group_offset |-> info.group_offset,
      query_mask |-> QueryMask_new(info.storage_mask, {}) ]

\* Option::None, and a Range<usize>.
None == [ none |-> TRUE ]
Range(start, end) == [ start |-> start, end |-> end ]

\* include with the smaller of the two offsets.
QueryGroupInfo_include_min_offset(self, info) ==
    IF self.group_family # info.group_family THEN None
    ELSE [ group_family |-> self.group_family,
           group_offset |-> IF self.group_offset <= info.group_offset
                            THEN self.group_offset ELSE info.group_offset,
           query_mask |-> QueryMask_with_include(self.query_mask, info.storage_mask) ]

QueryGroupInfo_include(self, info) ==
    IF self.group_family # info.group_family THEN None
    ELSE [ group_family |-> self.group_family,
           group_offset |-> Max(self.group_offset, info.group_offset),
           query_mask |-> QueryMask_with_include(self.query_mask, info.storage_mask) ]

QueryGroupInfo_exclude(self, info) ==
    IF self.group_family # info.group_family THEN None
    ELSE [ group_family |-> self.group_family,
           group_offset |-> Max(self.group_offset, info.group_offset),
           query_mask |-> QueryMask_with_exclude(self.query_mask, info.storage_mask) ]

\* group_range: Some(range) as the range; families[f][k + 1] is
\* *group_family.add(k).  Reading the group before offset 0 is outside the
\* family's array.
group_range(self, families) ==
    LET group_family == families[self.group_family]
        group == group_family[self.group_offset + 1]
    IN IF self.query_mask = Group_include_mask(group)
       THEN Range(0, group.len)
       ELSE IF self.query_mask = Group_exclude_mask(group)
            THEN IF self.group_offset = 0
                 THEN [ out_of_bounds |-> TRUE ]
                 ELSE LET prev_group == group_family[self.group_offset] IN
                      Range(prev_group.len, group.len)
            ELSE None

\* A component whose storage belongs to no group family.
UngroupedComponents == { "U" }

\* The group_info field of the view of a component: None for a storage
\* outside every family.
GroupInfoOf(comp) ==
    IF comp \in GroupedComponents THEN ComponentGroupInfoOf(comp) ELSE None

\* An include_group_info that passes the query's info on when the view has
\* no group info.
include_group_info_skipping_ungrouped(group_info, info) ==
    IF group_info = None THEN info ELSE QueryGroupInfo_include(info, group_info)

\* GetComponent::include_group_info: info.include(self.group_info?)
include_group_info(group_info, info) ==
    IF group_info = None THEN None ELSE QueryGroupInfo_include(info, group_info)

\* The same for a view that the query excludes: info.exclude(self.group_info?)
exclude_group_info(group_info, info) ==
    IF group_info = None THEN None ELSE QueryGroupInfo_exclude(info, group_info)

\* The QueryGroupInfo of a query: new from its first view, then include or
\* exclude for each further view; None once two views differ in family.
RECURSIVE QueryGroupInfoOf(_, _)
QueryGroupInfoOf(info, views) ==
    IF views = << >> \/ info = None THEN info
    ELSE QueryGroupInfoOf(
             IF Head(views).op = "include"
             THEN include_group_info(GroupInfoOf(Head(views).comp), info)
             ELSE exclude_group_info(GroupInfoOf(Head(views).comp), info),
             Tail(views))

\* The QueryGroupInfo that the first view of a query starts from.
FirstGroupInfo(comp) ==
    IF GroupInfoOf(comp) = None THEN None ELSE QueryGroupInfo_new(GroupInfoOf(comp))

\* The lengths of the groups of a family: a group of larger arity holds no
\* more entities than the group before it.
FamilyLens(f) ==
    { lens \in [ 1 .. Len(FamilyArities[f]) -> 0 .. MaxLen ] :
        \A k \in 2 .. Len(FamilyArities[f]) : lens[k] <= lens[k - 1] }

Views ==
    UNION { [ 1 .. n -> [ op : { "include", "exclude" },
                          comp : GroupedComponents \cup UngroupedComponents ] ] :
              n \in 0 .. MaxQueryOps }

InitGroupRange ==
    /\ InitOutsideCall
    /\ \E lens1 \in FamilyLens(1), lens2 \in FamilyLens(2) :
       \E first \in GroupedComponents \cup UngroupedComponents, views \in Views :
           call_args = [ families |-> << GroupFamily(1, lens1), GroupFamily(2, lens2) >>,
                         first |-> first,
                         views |-> views ]
    /\ call_ret = << >>
    /\ view = << >>
    /\ last_get = << >>

\* The query's group info is resolved and, when there is one, group_range
\* is called on it.
CallGroupRange ==
    /\ call_ret = << >>
    /\ LET info == QueryGroupInfoOf(FirstGroupInfo(call_args.first), call_args.views)
       IN call_ret' = << IF info = None THEN None
                         ELSE group_range(info, call_args.families) >>
    /\ UNCHANGED << call_args, viewVars, outsideCall >>

NextGroupRange == CallGroupRange

SpecGroupRange == InitGroupRange /\ [][NextGroupRange]_vars

(***************************************************************************)
(* SpecView: items taken from a ComponentView, shared or mutable, by index *)
(* or through the parts an iterator holds, under each change filter, and   *)
(* writes through the mutable items.                                       *)
(***************************************************************************)
Ticks == 0 .. MaxTick

ChangeTicks(inserted, changed) == [ inserted |-> inserted, changed |-> changed ]

Filters == { "Passthrough", "Added", "Mutated" }

IS_PASSTHROUGH(F) == F = "Passthrough"

\* A tick is newer than the last run iff it lies in (change_tick, tick].
IsNewer(t, wtick, change_tick) == change_tick < t /\ t <= wtick

ChangeTicksFilter_matches(F, ticks, wtick, change_tick) ==
    CASE F = "Added" -> IsNewer(ticks.inserted, wtick, change_tick)
      [] F = "Mutated" -> IsNewer(ticks.changed, wtick, change_tick)
      [] OTHER -> TRUE

\* The view over a storage; of the storage, the ChangeTicks of its slots.
ComponentView_new(storage, wtick, change_tick) ==
    [ storage |-> storage, world_tick |-> wtick, change_tick |-> change_tick ]

ComponentView_change_detection_ticks(v) == << v.world_tick, v.change_tick >>

Some(item) == [ some |-> item ]

\* The shared item: the component of the slot.
ComponentRef(index) == [ component |-> index ]

\* The mutable item: the component, its ChangeTicks and the tick of a write.
ComponentRefMut_new(component, ticks, wtick) ==
    [ component |-> component, ticks |-> ticks, world_tick |-> wtick ]

\* Writing through the item records the item's tick as the slot's changed tick.
ComponentRefMut_deref_mut(storage, item) ==
    [ storage EXCEPT ![item.ticks + 1].changed = item.world_tick ]

\* get_unchecked with the ticks of the filter exchanged.
ComponentView_get_unchecked_ticks_swapped(v, F, index) ==
    IF IS_PASSTHROUGH(F)
    THEN Some(ComponentRef(index))
    ELSE IF ChangeTicksFilter_matches(F, v.storage[index + 1], v.change_tick, v.world_tick)
         THEN Some(ComponentRef(index))
         ELSE None

ComponentView_get_unchecked(v, F, index) ==
    IF IS_PASSTHROUGH(F)
    THEN Some(ComponentRef(index))
    ELSE IF ChangeTicksFilter_matches(F, v.storage[index + 1], v.world_tick, v.change_tick)
         THEN Some(ComponentRef(index))
         ELSE None

ComponentView_get_from_parts_unchecked(F, ticks, index, wtick, change_tick) ==
    IF IS_PASSTHROUGH(F)
    THEN Some(ComponentRef(index))
    ELSE IF ChangeTicksFilter_matches(F, ticks[index + 1], wtick, change_tick)
         THEN Some(ComponentRef(index))
         ELSE None

\* get_unchecked of the mutable view handing the item the view's change tick.
ComponentViewMut_get_unchecked_change_tick(v, F, index) ==
    IF IS_PASSTHROUGH(F)
    THEN Some(ComponentRefMut_new(index, index, v.change_tick))
    ELSE IF ChangeTicksFilter_matches(F, v.storage[index + 1], v.world_tick, v.change_tick)
         THEN Some(ComponentRefMut_new(index, index, v.change_tick))
         ELSE None

ComponentViewMut_get_unchecked(v, F, index) ==
    IF IS_PASSTHROUGH(F)
    THEN Some(ComponentRefMut_new(index, index, v.world_tick))
    ELSE IF ChangeTicksFilter_matches(F, v.storage[index + 1], v.world_tick, v.change_tick)
         THEN Some(ComponentRefMut_new(index, index, v.world_tick))
         ELSE None

ComponentViewMut_get_from_parts_unchecked(F, ticks, index, wtick, change_tick) ==
    IF IS_PASSTHROUGH(F)
    THEN Some(ComponentRefMut_new(index, index, wtick))
    ELSE IF ChangeTicksFilter_matches(F, ticks[index + 1], wtick, change_tick)
         THEN Some(ComponentRefMut_new(index, index, wtick))
         ELSE None

\* What was asked of the view last, what it gave, and whether the item given
\* has been written through.
Got(by, mutable, filter, index, ret) ==
    [ by |-> by, mutable |-> mutable, filter |-> filter, index |-> index, ret |-> ret,
      written |-> FALSE ]

\* The storages a run can meet: no slot carries a tick later than the world
\* tick the view captured, and the last run was not later either.  The
\* query's view is shared or mutable and its filter is one type for good.
InitView ==
    /\ InitOutsideCall
    /\ call_args \in [ mutable : BOOLEAN, filter : Filters ]
    /\ call_ret = << >>
    /\ \E wtick \in Ticks :
       \E change_tick \in 0 .. wtick, len \in 1 .. MaxLen :
       \E storage \in [ 1 .. len -> { ChangeTicks(i, c) : i, c \in 0 .. wtick } ] :
           view = ComponentView_new(storage, wtick, change_tick)
    /\ last_get = << >>

viewOutside == << call_args, call_ret, outsideCall >>

\* view.get(entity) under the query's filter, on the shared or on the
\* mutable view.
Get(index) ==
    /\ index < Len(view.storage)
    /\ last_get' = Got("get", call_args.mutable, call_args.filter, index,
                       IF call_args.mutable
                       THEN ComponentViewMut_get_unchecked(view, call_args.filter, index)
                       ELSE ComponentView_get_unchecked(view, call_args.filter, index))
    /\ UNCHANGED << view, viewOutside >>

\* One step of an iterator over the view: the iterator holds the parts of
\* the split view and the view's change detection ticks.
IterNext(index) ==
    /\ index < Len(view.storage)
    /\ LET t == ComponentView_change_detection_ticks(view)
           F == call_args.filter
       IN last_get' = Got("iter", call_args.mutable, F, index,
              IF call_args.mutable
              THEN ComponentViewMut_get_from_parts_unchecked(F, view.storage, index, t[1], t[2])
              ELSE ComponentView_get_from_parts_unchecked(F, view.storage, index, t[1], t[2]))
    /\ UNCHANGED << view, viewOutside >>

\* The mutable item obtained last is written through.
Write ==
    /\ last_get # << >>
    /\ last_get.mutable
    /\ last_get.ret # None
    /\ view' = [ view EXCEPT !.storage = ComponentRefMut_deref_mut(@, last_get.ret.some) ]
    /\ last_get' = [ last_get EXCEPT !.written = TRUE ]
    /\ UNCHANGED viewOutside

NextView ==
    \/ \E index \in 0 .. (MaxLen - 1) : Get(index)
    \/ \E index \in 0 .. (MaxLen - 1) : IterNext(index)
    \/ Write

SpecView == InitView /\ [][NextView]_vars

(***************************************************************************)
(* SpecSplit: shortest_entity_slice on every list of up to MaxSlices dense *)
(* entity slices, then split_sparse! on the same elements when there is at *)
(* least one (the macro takes one element or more).                        *)
(***************************************************************************)
\* The index of the first element of the list with the least key:
\* Iterator::min_by_key returns the first of several equal minima.
MinByKeyIndex(lens) ==
    CHOOSE k \in 1 .. Len(lens) :
        /\ \A j \in 1 .. Len(lens) : lens[k] <= lens[j]
        /\ \A j \in 1 .. (k - 1) : lens[j] > lens[k]

\* A choice of the first slice, whatever its length.
shortest_entity_slice_first(slices) ==
    IF slices = << >> THEN None ELSE Some(slices[1])

\* slices.iter().min_by_key(|e| e.len()).copied()
shortest_entity_slice(slices) ==
    IF slices = << >> THEN None
    ELSE Some(slices[MinByKeyIndex([ k \in 1 .. Len(slices) |-> Len(slices[k]) ])])

\* elem.split(): the dense entities, the sparse array and the data of a
\* storage.
Split(elem) == << elem.entities, elem.sparse, elem.data >>

\* split_sparse!: the shortest entity slice of the elements, unwrapped, with
\* the sparse arrays and the data of all of them.
split_sparse(elems) ==
    LET splits == [ k \in 1 .. Len(elems) |-> Split(elems[k]) ] IN
    [ entities |-> shortest_entity_slice([ k \in 1 .. Len(elems) |-> splits[k][1] ]).some,
      sparse |-> [ k \in 1 .. Len(elems) |-> splits[k][2] ],
      data |-> [ k \in 1 .. Len(elems) |-> splits[k][3] ] ]

\* The dense entity slices of a storage: up to MaxLen entities, each once.
EntitySlices ==
    { slice \in UNION { [ 1 .. n -> { NewEntity(i, 1) : i \in Indexes } ] : n \in 0 .. MaxLen } :
        NoDuplicates(slice) }

\* The storages of a query: element k has its own sparse array and data.
Elems(slices) ==
    [ k \in 1 .. Len(slices) |-> [ entities |-> slices[k],
                                   sparse |-> << "sparse", k >>,
                                   data |-> << "data", k >> ] ]

InitSplit ==
    /\ InitOutsideCall
    /\ view = << >>
    /\ last_get = << >>
    /\ \E n \in 0 .. MaxSlices : \E slices \in [ 1 .. n -> EntitySlices ] :
         call_args = Elems(slices)
    /\ call_ret = << >>

\* shortest_entity_slice(&[slices]) on the entity slices of the elements.
CallShortestEntitySlice ==
    /\ call_ret = << >>
    /\ call_ret' = << shortest_entity_slice([ k \in 1 .. Len(call_args) |->
                                                 call_args[k].entities ]) >>
    /\ UNCHANGED << call_args, viewVars, outsideCall >>

\* split_sparse!((elem, idx), ...) on the same elements.
CallSplitSparse ==
    /\ Len(call_ret) = 1
    /\ call_args # << >>
    /\ call_ret' = Append(call_ret, split_sparse(call_args))
    /\ UNCHANGED << call_args, viewVars, outsideCall >>

NextSplit ==
    \/ CallShortestEntitySlice
    \/ CallSplitSparse

SpecSplit == InitSplit /\ [][NextSplit]_vars

(***************************************************************************)
(* SpecRegister: Dispatcher::register_storages on every dispatcher built   *)
(* from up to MaxSystems steps and every world with some of the storages   *)
(* registered beforehand, empty or not.  The world's storages are a map    *)
(* from the registered component types to their storages.                  *)
(***************************************************************************)
\* ComponentStorages::register_with: the builder is called only for a type
\* without a storage.
ComponentStorages_register_with(storages, type_id, storage_builder) ==
    IF type_id \in DOMAIN storages
    THEN storages
    ELSE [ t \in DOMAIN storages \cup { type_id } |->
             IF t = type_id THEN storage_builder ELSE storages[t] ]

World_register_with(storages, type_id, storage_builder) ==
    ComponentStorages_register_with(storages, type_id, storage_builder)

\* comp.create_storage(): an empty storage of the component's type.
create_storage == TypedStorage_default

\* The loop over the accesses of the systems of one stage.
RECURSIVE RegisterAccesses(_, _)
RegisterAccesses(storages, accesses) ==
    IF accesses = << >> THEN storages
    ELSE LET access == Head(accesses) IN
         RegisterAccesses(
             IF access.kind \in { "Comp", "CompMut" }
             THEN World_register_with(storages, access.id, create_storage)
             ELSE storages,
             Tail(accesses))

\* systems.iter().flat_map(|sys| sys.accesses())
RECURSIVE FlatAccesses(_)
FlatAccesses(systems) ==
    IF systems = << >> THEN << >> ELSE Head(systems).accesses \o FlatAccesses(Tail(systems))

\* register_storages that looks at the RunSystems stages only.
RECURSIVE register_storages_of_run_systems(_, _)
register_storages_of_run_systems(dispatcher_steps, storages) ==
    IF dispatcher_steps = << >> THEN storages
    ELSE LET step == Head(dispatcher_steps) IN
         register_storages_of_run_systems(
             Tail(dispatcher_steps),
             IF step.kind = "RunSystems"
             THEN RegisterAccesses(storages, FlatAccesses(step.systems))
             ELSE storages)

RECURSIVE register_storages(_, _)
register_storages(dispatcher_steps, storages) ==
    IF dispatcher_steps = << >> THEN storages
    ELSE LET step == Head(dispatcher_steps) IN
         register_storages(
             Tail(dispatcher_steps),
             CASE step.kind = "RunSystems" ->
                    RegisterAccesses(storages, FlatAccesses(step.systems))
               [] step.kind = "RunLocalSystems" ->
                    RegisterAccesses(storages, FlatAccesses(step.systems))
               [] OTHER -> storages)

\* The steps a builder can be given, in the order given.
SimpleStepsAt(id) ==
    { SimpleStep("RunSystem", id, accesses) : accesses \in SystemAccesses }
        \cup { SimpleStep("RunLocalSystem", id, accesses) : accesses \in LocalSystemAccesses }
        \cup { SimpleStep("RunLocalFn", id, << >>), SimpleFlush }

BuilderInputs ==
    UNION { { ss \in [ 1 .. n -> UNION { SimpleStepsAt(id) : id \in 1 .. n } ] :
                \A k \in 1 .. n : ss[k] = SimpleFlush \/ ss[k].id = k } : n \in 0 .. MaxSystems }

\* The storages a world can hold before the call: of some types, one of
\* them named by no system, each empty or with a component of one entity.
RegisteredBefore ==
    UNION { [ types -> { TypedStorage_default,
                         TypedStorage_insert(TypedStorage_default, NewEntity(0, 1)) } ] :
              types \in SUBSET { "Hp", "A", "C" } }

InitRegister ==
    /\ InitOutsideCall
    /\ view = << >>
    /\ last_get = << >>
    /\ \E ss \in BuilderInputs, storages \in RegisteredBefore :
           call_args = [ steps |-> merge_and_optimize_steps(ss), storages |-> storages ]
    /\ call_ret = << >>

CallRegisterStorages ==
    /\ call_ret = << >>
    /\ call_ret' = << register_storages(call_args.steps, call_args.storages) >>
    /\ UNCHANGED << call_args, viewVars, outsideCall >>

NextRegister == CallRegisterStorages

SpecRegister == InitRegister /\ [][NextRegister]_vars

(***************************************************************************)
(* Properties.                                                             *)
(***************************************************************************)
\* The stages of RunSystems steps hold no two systems with conflicting accesses.
NoConflictInStage(stage) ==
    \A i, j \in 1 .. Len(stage.systems) : i # j =>
        \A k \in 1 .. Len(stage.systems[i].accesses),
           l \in 1 .. Len(stage.systems[j].accesses) :
            ~conflicts(stage.systems[i].accesses[k], stage.systems[j].accesses[l])

\* C1: every RunSystems stage that build() produces is pairwise
\* non-conflicting: no two distinct systems of one stage declare accesses a
\* and b with a.conflicts(b).
C1_StagesNonConflicting ==
    built => \A s \in 1 .. Len(steps) :
                steps[s].kind = "RunSystems" => NoConflictInStage(steps[s])

\* Witness of C1: a built dispatcher with a stage of two systems followed
\* by a stage that a conflict split off.
C1_Witness ==
    /\ built
    /\ \E s \in 1 .. Len(steps) - 1 :
         /\ steps[s].kind = "RunSystems"
         /\ Len(steps[s].systems) >= 2
         /\ steps[s + 1].kind = "RunSystems"

\* C2: between two maintain calls no two allocate_atomic calls return the
\* same entity, and the number of entities handed out equals the fall of
\* recycled_len plus the rise of current_id.
C2_AtomicAllocation ==
    /\ NoDuplicates(handed)
    /\ Len(handed) = (window.recycled_len - world.entities.allocator.recycled_len)
                     + (world.entities.allocator.current_id - window.current_id)

\* C3: after destroy_entity(e) has returned true, contains_entity(e) is false.
C3_DestroyedNotContained ==
    (~panicked /\ last_call.op = "destroy_entity" /\ last_call.ret)
        => ~World_contains_entity(world, last_call.entity)

\* C4: in every state of the EntityStorage the sparse slot at
\* dense[i].index holds (i, dense[i].version), no other sparse slot is
\* present and the dense list has no duplicates.
C4_EntitySetDense ==
    LET s == world.entities.storage IN
    ~panicked =>
        /\ \A i \in 1 .. Len(s.entities) :
             s.sparse[s.entities[i].index] = IndexEntity(i - 1, s.entities[i].version)
        /\ \A x \in Indexes :
             s.sparse[x] # NoneIE => \E i \in 1 .. Len(s.entities) : s.entities[i].index = x
        /\ NoDuplicates(s.entities)

\* Storage-Dense: sparse[dense[i].index] = (i, dense[i].version) for every i.
StorageDense(s) ==
    \A i \in 1 .. Len(s.dense) :
        s.sparse[s.dense[i].index] = IndexEntity(i - 1, s.dense[i].version)

\* C5: delete preserves Storage-Dense, the deleted entity is no longer
\* contained, and deleting an absent entity changes nothing.
C5_DeleteKeepsStorageDense ==
    (last_call.op = "delete" /\ StorageDense(prev_set)) =>
        /\ StorageDense(set)
        /\ ~TypeErasedSparseSet_contains(set, last_call.entity)
        /\ (~last_call.ret => set = prev_set)

\* The entities that hold every component of comps.
Holders(storages, comps) ==
    { e \in Entities : \A c \in comps : e \in SeqToSet(storages[c].dense) }

\* Group-Prefix: in every storage of a group the first len dense slots are
\* the entities that hold all its components; nested prefixes are nested.
GroupPrefix(cs) ==
    \A f \in 1 .. Len(cs.families) : \A j \in 1 .. Len(cs.families[f]) :
        LET group == cs.families[f][j] IN
        /\ \A c \in group.comps :
             /\ group.len <= Len(cs.storages[c].dense)
             /\ SeqToSet(SubSeq(cs.storages[c].dense, 1, group.len))
                    = Holders(cs.storages, group.comps)
        /\ j > 1 => group.len <= cs.families[f][j - 1].len

\* C6: Group-Prefix holds for every family after any sequence of entity
\* creation, component insertion and removal, entity destruction and
\* set_layout.
C6_GroupPrefix == ~panicked => GroupPrefix(world.storages)

\* The entities of the dense list of the storage of component c.
StoredIn(c) == SeqToSet(world.storages.storages[c].dense)

\* C7: a queued command has no effect on the component storages before the
\* next FlushCommands step, and its effect is there after that step.
C7_CommandsDeferred ==
    ~panicked =>
        /\ \A b \in 1 .. Len(buffers) : \A k \in 1 .. Len(buffers[b]) :
             \A c \in buffers[b][k].comps : buffers[b][k].entity \notin StoredIn(c)
        /\ \A k \in 1 .. Len(applied) :
             \A c \in applied[k].comps : applied[k].entity \in StoredIn(c)

\* C8: under run_par the commands of two systems of one parallel stage are
\* applied at the flush in the order in which the systems were added.
C8_BufferOrder ==
    run_call = "run_par" =>
        \A i, j \in 1 .. Len(applied) :
            (i < j /\ applied[i].stage = applied[j].stage
                   /\ steps[applied[i].stage].kind = "RunSystems")
                => applied[i].issuer <= applied[j].issuer

\* The ids of the failing systems, by stage and then by position.
ExpectedErrors ==
    LET Failed(system) == system.id \in failed
        failing == SelectSeq(AllSystems(steps), Failed)
    IN [ k \in 1 .. Len(failing) |-> failing[k].id ]

\* C9: a run returns Ok iff no system returned an error; else the RunError
\* holds one error per failing system, by stage and then by position.
C9_RunResult ==
    (run_call # "none" /\ result # "none") =>
        /\ result = "Ok" <=> failed = {}
        /\ result = "Err" => errors = ExpectedErrors

\* Witness of C9: run_par returned the errors of two systems of one
\* parallel stage.
C9_Witness ==
    /\ run_call = "run_par"
    /\ result = "Err"
    /\ \E s \in 1 .. Len(steps) :
         /\ steps[s].kind = "RunSystems"
         /\ Len(steps[s].systems) >= 2
         /\ \A i \in 1 .. Len(steps[s].systems) : steps[s].systems[i].id \in failed

\* The number of FlushCommands steps of the dispatcher.
FlushSteps == Cardinality({ s \in 1 .. Len(steps) : steps[s].kind = "FlushCommands" })

\* C10: a run runs every system, local system and local fn exactly once,
\* errors or not, and executes every flush step.
C10_EverySystemRunsOnce ==
    /\ \A id \in DOMAIN ran : ran[id] <= 1
    /\ (run_call # "none" /\ result # "none") =>
          /\ \A id \in DOMAIN ran : ran[id] = 1
          /\ flushed = FlushSteps

\* Witness of C10: a run returned although the first system of the first
\* stage failed, and a later stage ran.
C10_Witness ==
    /\ result = "Err"
    /\ Len(steps) >= 3
    /\ steps[1].systems[1].id \in failed
    /\ \A id \in DOMAIN ran : ran[id] = 1

\* C11: after run_seq or run_par has returned, Ok or Err, the change tick
\* stored for the world is the value world.tick() had when the call was
\* entered, also when the tick changed during the run.
C11_StoredTickIsEntryTick ==
    (run_call # "none" /\ result # "none") =>
        /\ world_id \in DOMAIN change_ticks
        /\ change_ticks[world_id] = Last(run_log).tick

\* Witness of C11: a run returned Err and the world tick at its return was
\* not the tick at its entry.
C11_Witness ==
    /\ result = "Err"
    /\ Last(run_log).exit # Last(run_log).tick

\* The entry tick of the last earlier run on the world of the current run,
\* or 0 when there is none.
ExpectedChangeTick ==
    LET earlier == { k \in 1 .. (Len(run_log) - 1) : run_log[k].world = world_id } IN
    IF earlier = {} THEN 0
    ELSE run_log[CHOOSE k \in earlier : \A l \in earlier : l <= k].tick

\* C12: within one run every system is given the same change_tick: the
\* value stored for the world at the end of the previous run of the
\* dispatcher on it, or 0 when there was none.
C12_SameChangeTick ==
    \A sid \in DOMAIN given : given[sid] # NoTick => given[sid] = ExpectedChangeTick

\* Witness of C12: in a second run on one world a system was given the
\* entry tick of the first run, which is neither 0 nor the current tick.
C12_Witness ==
    /\ Len(run_log) = 2
    /\ run_log[1].world = world_id
    /\ \E sid \in DOMAIN given : given[sid] = 1 /\ world_tick > 1

\* The step that holds system sid.
StageOf(sid) ==
    CHOOSE s \in 1 .. Len(steps) :
        \E i \in 1 .. Len(steps[s].systems) : steps[s].systems[i].id = sid

\* System sid was started by the current call and has not returned.
Running(sid) == (given[sid] # NoTick \/ ran[sid] > 0) /\ ran[sid] = 0

\* C13: in run_par no system of a stage starts before every system of the
\* stages before it has returned, and a FlushCommands step and every local
\* stage run only while no other system is running.
C13_StagesInOrder ==
    run_call = "run_par" =>
        /\ \A a, b \in DOMAIN ran :
             ((given[b] # NoTick \/ ran[b] > 0) /\ StageOf(a) < StageOf(b)) => ran[a] = 1
        /\ (Active /\ step_index <= Len(steps)) =>
             /\ steps[step_index].kind = "FlushCommands"
                    => \A sid \in DOMAIN ran : ~Running(sid)
             /\ steps[step_index].kind \in { "RunLocalSystems", "RunLocalFns" }
                    => Cardinality({ sid \in DOMAIN ran : Running(sid) }) <= 1

\* Witness of C13: in run_par a system of a later stage is running after a
\* first stage of two or more parallel systems.
C13_Witness ==
    /\ run_call = "run_par"
    /\ steps[1].kind = "RunSystems"
    /\ Len(steps[1].systems) >= 2
    /\ \E b \in DOMAIN ran : StageOf(b) > 1 /\ Running(b)

\* The access is exclusive: CompMut or ResMut.
Exclusive_access(a) == a.kind \in { "CompMut", "ResMut" }

\* The access names a type: every access but Commands.
Typed(a) == a.kind # "Commands"

\* Both accesses go to the component storages, or both to the resources.
SameStorage(a, b) ==
    \/ a.kind \in { "Comp", "CompMut" } /\ b.kind \in { "Comp", "CompMut" }
    \/ a.kind \in { "Res", "ResMut" } /\ b.kind \in { "Res", "ResMut" }

\* C14 as stated: conflicts(a, b) is true iff a and b reference the same
\* TypeId and at least one of them is exclusive; the relation is symmetric
\* and Commands conflicts with nothing.
C14_ConflictsIffSameTypeId ==
    call_ret # << >> =>
        LET a == call_args.self
            b == call_args.other
        IN /\ call_ret[1] <=> /\ Typed(a) /\ Typed(b)
                           /\ a.id = b.id
                           /\ (Exclusive_access(a) \/ Exclusive_access(b))
           /\ call_ret[1] = conflicts(b, a)
           /\ (a = Commands \/ b = Commands) => ~call_ret[1]

\* C14 amended: conflicts(a, b) is true iff a and b are both component
\* accesses or both resource accesses of the same type and at least one of
\* them is exclusive; the relation is symmetric and Commands conflicts with
\* nothing.
C14_ConflictsIffSameStorageAndType ==
    call_ret # << >> =>
        LET a == call_args.self
            b == call_args.other
        IN /\ call_ret[1] <=> /\ SameStorage(a, b)
                           /\ a.id = b.id
                           /\ (Exclusive_access(a) \/ Exclusive_access(b))
           /\ call_ret[1] = conflicts(b, a)
           /\ (a = Commands \/ b = Commands) => ~call_ret[1]

\* Witness of C14: conflicts has answered for an exclusive component access
\* and an exclusive resource access of one type, and found no conflict.
C14_Witness ==
    /\ call_ret = << FALSE >>
    /\ call_args.self = CompMut("T")
    /\ call_args.other = ResMut("T")

\* The systems of the RunSystems stages, in the order of the stages.
RECURSIVE ParallelSystemsFrom(_)
ParallelSystemsFrom(k) ==
    IF k > Len(steps) THEN << >>
    ELSE (IF steps[k].kind = "RunSystems" THEN steps[k].systems ELSE << >>)
             \o ParallelSystemsFrom(k + 1)

\* Some access of a conflicts with some access of b.
AccessesConflict(a, b) ==
    \E k \in 1 .. Len(a.accesses), l \in 1 .. Len(b.accesses) :
        conflicts(a.accesses[k], b.accesses[l])

Included ==
    { call_args.first } \cup
        { call_args.views[k].comp :
            k \in { j \in 1 .. Len(call_args.views) : call_args.views[j].op = "include" } }

Excluded ==
    { call_args.views[k].comp :
        k \in { j \in 1 .. Len(call_args.views) : call_args.views[j].op = "exclude" } }

\* The components of group k of family f.
GroupComponents(f, k) == { FamilyComponents[f][i] : i \in 1 .. FamilyArities[f][k] }

\* C16: a query that includes exactly the components of a group and excludes
\* the remaining components of the next group of the family resolves to the
\* range from the length of the larger-arity group to the length of the
\* smaller-arity group ((A, B, !C) to [L_ABC, L_AB)).
C16_ExcludeRange ==
    call_ret # << >> =>
        \A f \in 1 .. Len(FamilyArities) : \A k \in 2 .. Len(FamilyArities[f]) :
            ( /\ Included = GroupComponents(f, k - 1)
              /\ Excluded = GroupComponents(f, k) \ GroupComponents(f, k - 1) )
            => call_ret[1] = Range(call_args.families[f][k].len,
                                   call_args.families[f][k - 1].len)

\* C17: a query whose views belong to one family, that excludes nothing and
\* includes exactly the components of a group g, resolves to [0, L_g)
\* ((A, B) to [0, L_AB)).
C17_IncludeRange ==
    call_ret # << >> =>
        \A f \in 1 .. Len(FamilyArities) : \A k \in 1 .. Len(FamilyArities[f]) :
            (Included = GroupComponents(f, k) /\ Excluded = {})
            => call_ret[1] = Range(0, call_args.families[f][k].len)

\* Witness of C17: the query (A, B) has been resolved to [0, 2) with two
\* entities in {A, B} and one of them in {A, B, C}.
C17_Witness ==
    /\ call_ret = << Range(0, 2) >>
    /\ Included = { "A", "B" }
    /\ Excluded = {}
    /\ call_args.families[1][1].len = 2
    /\ call_args.families[1][2].len = 1

\* The host's call of op has just returned (or panicked) in this step.
HostCallOf(op) == nops' = nops + 1 /\ last_call'.op = op

\* C18: destroy_entity(e) on an entity that is not live returns false and
\* changes neither the set of live entities, nor the allocator's recycled
\* list, nor any component storage.
C18_DestroyNonLiveIsNoOp ==
    [][ (HostCallOf("destroy_entity") /\ last_call'.entity \notin live) =>
            /\ ~panicked'
            /\ ~last_call'.ret
            /\ SeqToSet(world'.entities.storage.entities)
                   = SeqToSet(world.entities.storage.entities)
            /\ world'.entities.allocator.recycled = world.entities.allocator.recycled
            /\ world'.storages = world.storages ]_vars

\* C19: insert_components(e, c) on an entity that is not live returns
\* Err(NoSuchEntity) and changes neither the component storages nor the
\* entity set; on a live entity it returns Ok(()).
C19_InsertNeedsLiveEntity ==
    [][ HostCallOf("insert_components") =>
            IF last_call'.entity \in live
            THEN last_call'.ret
            ELSE /\ ~last_call'.ret
                 /\ world'.storages = world.storages
                 /\ world'.entities = world.entities ]_vars

\* C20: the entities issued with one index, in the order of their issue,
\* have strictly increasing versions (so an index whose version cannot be
\* incremented is never issued again).  Issues are counted from the last
\* clear, which starts the allocator afresh.
C20_VersionsIncrease ==
    \A i, j \in 1 .. Len(issued) :
        (i < j /\ issued[i].index = issued[j].index)
            => issued[i].version < issued[j].version

\* The entity is live in the storage: contains(e) and e is in the entities slice.
LiveIn(es, entity) ==
    /\ EntityStorage_contains(es, entity)
    /\ entity \in SeqToSet(es.storage.entities)

\* An exclusive call that starts with (or is) maintain has returned in this step.
MaintainReturned ==
    /\ nops' = nops + 1
    /\ ~panicked'
    /\ last_call'.op \in { "maintain", "create", "destroy" }

\* C21: an entity returned by create_atomic is neither contained nor in the
\* entities slice until the next maintain (explicit, or at the start of
\* create or destroy), and it is live right after that maintain (unless that
\* call is the destroy of the entity itself).
C21_AtomicLiveAfterMaintain ==
    [][ /\ \A k \in 1 .. Len(handed') :
             /\ ~EntityStorage_contains(world'.entities, handed'[k])
             /\ handed'[k] \notin SeqToSet(world'.entities.storage.entities)
        /\ MaintainReturned =>
             \A k \in 1 .. Len(handed) :
                 \/ last_call'.op = "destroy" /\ last_call'.entity = handed[k]
                 \/ LiveIn(world'.entities, handed[k]) ]_vars

\* The recycled entries that allocate_atomic has not handed out since the
\* last exclusive call.
AvailableRecycled(a) ==
    { k \in 1 .. Len(a.recycled) : a.recycled[k] \notin SeqToSet(handed) }

\* C22: allocate and allocate_atomic fail (return None, or panic on the
\* way) iff no recycled entry is available and current_id is at its
\* maximum; in every other state they return an entity.  Both are taken in
\* every state in which no thread is inside allocate_atomic; allocate, which
\* create calls after maintain, in the states without entities handed out
\* atomically.
C22_AllocationFailsIffExhausted ==
    (~panicked /\ AllIdle) =>
        LET a == world.entities.allocator
            r == allocate_atomic(a)
        IN /\ handed = << >> =>
                  (allocate(a).ret = NoEntity <=> (a.recycled = << >> /\ a.current_id = MaxId))
           /\ (r.panic \/ r.ret = NoEntity)
                  <=> (AvailableRecycled(a) = {} /\ a.current_id = MaxId)

\* The slot the last item was asked for.
SlotOf(g) == view.storage[g.index + 1]

\* C23: once an item was asked of the view and before any write through it,
\* a filter other than the passthrough one gave the component iff its tick
\* is newer than the last run (Added: change_tick < ticks.inserted <=
\* world_tick; Mutated: change_tick < ticks.changed <= world_tick, with the
\* two ticks the view holds), and the passthrough filter gave the component
\* whatever its ticks.
C23_FilterYieldsIffNewer ==
    (last_get # << >> /\ ~last_get.written) =>
        LET g == last_get
            t == SlotOf(g)
        IN /\ g.filter = "Added" =>
                  (g.ret # None <=> (view.change_tick < t.inserted /\ t.inserted <= view.world_tick))
           /\ g.filter = "Mutated" =>
                  (g.ret # None <=> (view.change_tick < t.changed /\ t.changed <= view.world_tick))
           /\ g.filter = "Passthrough" => g.ret # None
           /\ g.ret # None => g.ret.some.component = g.index

\* An Added filter gave a component that a Mutated filter would have withheld.
C23_Witness ==
    /\ last_get # << >>
    /\ ~last_get.written
    /\ last_get.filter = "Added"
    /\ last_get.ret # None
    /\ SlotOf(last_get).changed <= view.change_tick
    /\ view.change_tick > 0

\* C24: asking a mutable view for an item, by get or by iteration, changes
\* no ChangeTicks; the ticks of the storage change only by a write through
\* a mutable item, which sets the changed tick of the item's slot to the
\* world tick the view captured and leaves every inserted tick as it was.
C24_OnlyWriteBumpsChanged ==
    [][ /\ (last_get' # << >> /\ ~last_get'.written) => view' = view
        /\ (last_get' # << >> /\ last_get'.written) =>
               /\ last_get # << >> /\ last_get.mutable /\ last_get.ret # None
               /\ view' = [ view EXCEPT !.storage[last_get.index + 1].changed = view.world_tick ] ]_vars

\* A mutable item obtained by iteration was written through, the slot's
\* changed tick is now the view's world tick and its inserted tick is older.
C24_Witness ==
    /\ last_get # << >>
    /\ last_get.written
    /\ last_get.by = "iter"
    /\ SlotOf(last_get).changed = view.world_tick
    /\ SlotOf(last_get).inserted < view.world_tick

\* The component types named by a Comp or CompMut access of a system or a
\* local system of the dispatcher.
ComponentTypesOf(dispatcher_steps) ==
    UNION { { sys.accesses[l].id :
                l \in { j \in 1 .. Len(sys.accesses) :
                          sys.accesses[j].kind \in { "Comp", "CompMut" } } } :
              sys \in SeqToSet(AllSystems(dispatcher_steps)) }

\* C25: after register_storages(world) every component type named by a
\* Comp or CompMut access of a system or local system of the dispatcher has
\* a storage in the world, and every storage registered before the call is
\* still there with the contents it had.
C25_RegisterStoragesRegistersAll ==
    call_ret # << >> =>
        /\ ComponentTypesOf(call_args.steps) \subseteq DOMAIN call_ret[1]
        /\ \A t \in DOMAIN call_args.storages :
               t \in DOMAIN call_ret[1] /\ call_ret[1][t] = call_args.storages[t]

\* A local system's CompMut<Hp> got its storage by the call, next to a
\* storage with a component that no system names.
C25_Witness ==
    /\ call_ret # << >>
    /\ \E k \in 1 .. Len(call_args.steps) :
           /\ call_args.steps[k].kind = "RunLocalSystems"
           /\ CompMut("Hp") \in SeqToSet(call_args.steps[k].systems[1].accesses)
    /\ "Hp" \notin DOMAIN call_args.storages
    /\ "Hp" \in DOMAIN call_ret[1]
    /\ "C" \in DOMAIN call_args.storages
    /\ call_ret[1]["C"].dense # << >>

\* The entity lies in the prefix of some group of the storages.
Grouped(cs, entity) ==
    \E f \in 1 .. Len(cs.families) : \E j \in 1 .. Len(cs.families[f]) :
        \E c \in cs.families[f][j].comps :
            \E i \in 1 .. Len(cs.storages[c].dense) :
                cs.storages[c].dense[i] = entity /\ i <= cs.families[f][j].len

\* C26: after destroy_entity(e) has returned true, no component storage
\* contains e, e lies in no group, and e's id has gone back to the
\* allocator: the recycled list has grown by e with its next version (an
\* entity of the last version has none and its index is retired).
C26_DestroyedEntityHasNoComponents ==
    [][ (HostCallOf("destroy_entity") /\ last_call'.ret) =>
            LET e == last_call'.entity
                before == world.entities.allocator.recycled
                after == world'.entities.allocator.recycled
            IN /\ ~panicked'
               /\ \A c \in Comps : /\ ~TypedStorage_contains(world'.storages.storages[c], e)
                                    /\ e \notin SeqToSet(world'.storages.storages[c].dense)
               /\ ~Grouped(world'.storages, e)
               /\ IF e.version < MaxVersion
                  THEN /\ after # << >>
                       /\ Last(after) = NewEntity(e.index, e.version + 1)
                       /\ Len(after) = Len(before) + 1
                       /\ world'.entities.allocator.recycled_len = Len(after)
                  ELSE after = before ]_vars

\* destroy_entity returned true under a layout with groups while another
\* entity keeps its components, and the destroyed id waits in the allocator.
C26_Witness ==
    /\ last_call.op = "destroy_entity"
    /\ last_call.ret
    /\ ~panicked
    /\ world.storages.families # << >>
    /\ \E c \in Comps : world.storages.storages[c].dense # << >>
    /\ world.entities.allocator.recycled # << >>
    /\ Last(world.entities.allocator.recycled).index = last_call.entity.index

\* C27: swap(a, b) on a set for which Storage-Dense holds exchanges the
\* dense entities, the flags and the components at a and b, gives each of
\* the two entities' sparse slots its new position with its own version,
\* changes no other slot, and Storage-Dense holds afterwards.
C27_SwapKeepsStorageDense ==
    (last_call.op = "swap" /\ StorageDense(prev_set)) =>
        /\ StorageDense(set)
        /\ \E a, b \in 0 .. (Len(prev_set.dense) - 1) :
               /\ set.dense = VecSwap(prev_set.dense, a, b)
               /\ set.flags = VecSwap(prev_set.flags, a, b)
               /\ set.data = VecSwap(prev_set.data, a, b)
               /\ set.sparse =
                      [prev_set.sparse EXCEPT
                          ![At(prev_set.dense, a).index] =
                              IndexEntity(b, At(prev_set.dense, a).version),
                          ![At(prev_set.dense, b).index] =
                              IndexEntity(a, At(prev_set.dense, b).version)]

\* How often the entity occurs in the sequence.
Occurrences(seq, entity) == Cardinality({ k \in 1 .. Len(seq) : seq[k] = entity })

\* C28: whenever maintain can be called, it yields exactly the entities
\* that allocate_atomic handed out since the previous maintain, each one
\* once: none that the exclusive allocate handed out and none that an
\* earlier maintain yielded.
C28_MaintainYieldsAtomicAllocations ==
    (~panicked /\ AllIdle) =>
        LET m == EntityAllocator_maintain(world.entities.allocator) IN
        /\ ~m.panic
        /\ \A entity \in Entities :
               Occurrences(m.yielded, entity) = Occurrences(handed, entity)

\* The number of commands in the buffers before buffer b.
RECURSIVE QueuedBefore(_, _)
QueuedBefore(bufs, b) ==
    IF b <= 1 THEN 0 ELSE QueuedBefore(bufs, b - 1) + Len(bufs[b - 1])

\* C29: at a FlushCommands step no system is running, world.maintain() has
\* completed before the first command is applied (the entities are those
\* that maintain leaves, and a command whose entity is live after maintain
\* stores its components), and the commands are applied buffer after buffer
\* in buffer order, each buffer first in first out.
C29_FlushMaintainsThenAppliesInOrder ==
    [][ flushed' = flushed + 1 =>
            /\ \A i \in DOMAIN sys_pc : sys_pc[i] # "borrowed"
            /\ Len(applied') = Len(applied) + QueuedBefore(buffers, Len(buffers) + 1)
            /\ \A b \in 1 .. Len(buffers) : \A k \in 1 .. Len(buffers[b]) :
                   applied'[Len(applied) + QueuedBefore(buffers, b) + k] = buffers[b][k]
            /\ \E ub \in UbOutcomes :
                   LET m == World_maintain(world, ub) IN
                   /\ ~m.panic
                   /\ world'.entities = m.w.entities
                   /\ \A b \in 1 .. Len(buffers) : \A k \in 1 .. Len(buffers[b]) :
                          EntityStorage_contains(m.w.entities, buffers[b][k].entity) =>
                              \A c \in buffers[b][k].comps :
                                  buffers[b][k].entity
                                      \in SeqToSet(world'.storages.storages[c].dense) ]_vars

\* A flush has applied two commands that one system queued in its buffer,
\* in the order queued, after maintain made their entities live: both
\* entities hold the component.
C29_Witness ==
    /\ flushed = 1
    /\ Len(applied) = 2
    /\ applied[1].issuer = applied[2].issuer
    /\ applied[1].entity # applied[2].entity
    /\ applied[1].entity \in StoredIn("A")
    /\ applied[2].entity \in StoredIn("A")

\* The ids of the Run systems of the dispatcher; a system's id is its
\* position among the builder's steps.
RunIds ==
    { ParallelSystemsFrom(1)[k].id : k \in 1 .. Len(ParallelSystemsFrom(1)) }

\* The position of system sid inside its stage.
PlaceOf(sid) ==
    CHOOSE i \in 1 .. Len(steps[StageOf(sid)].systems) : steps[StageOf(sid)].systems[i].id = sid

SystemOf(sid) == steps[StageOf(sid)].systems[PlaceOf(sid)]

\* The systems that were in the stage of the builder's step before sid when
\* sid was merged.
AlreadyIn(sid) ==
    { sys \in SeqToSet(steps[StageOf(sid - 1)].systems) : sys.id < sid }

\* C30: in the built dispatcher a Run system was appended to the stage that
\* was last when it was merged iff that stage was a RunSystems stage (the
\* builder's step before it was a Run system) and it conflicts with no
\* system already in that stage; otherwise it is the first system of a new
\* RunSystems stage that directly follows.  Two consecutive systems that
\* both declare CompMut<Hp> are in two stages, one after the other.
C30_AppendedIffNoConflict ==
    built => \A sid \in RunIds :
        LET after_run == (sid - 1) \in RunIds
            appended == PlaceOf(sid) > 1
        IN /\ steps[StageOf(sid)].kind = "RunSystems"
           /\ appended <=> /\ after_run
                           /\ \A sys \in AlreadyIn(sid) : ~AccessesConflict(sys, SystemOf(sid))
           /\ appended => StageOf(sid) = StageOf(sid - 1)
           /\ (~appended /\ after_run) => StageOf(sid) = StageOf(sid - 1) + 1
           /\ (/\ after_run
               /\ CompMut("Hp") \in SeqToSet(SystemOf(sid).accesses)
               /\ CompMut("Hp") \in SeqToSet(SystemOf(sid - 1).accesses))
                  => StageOf(sid) = StageOf(sid - 1) + 1

\* Two systems with CompMut<Hp> added one after the other stand in two
\* stages, the second of which took in a third system without a conflict.
C30_Witness ==
    /\ built
    /\ { 1, 2, 3 } \subseteq RunIds
    /\ CompMut("Hp") \in SeqToSet(SystemOf(1).accesses)
    /\ CompMut("Hp") \in SeqToSet(SystemOf(2).accesses)
    /\ StageOf(1) = 1
    /\ StageOf(2) = 2
    /\ StageOf(3) = 2

\* The step list holds a system, a local system or a local fn.
HasRunnable(step_list) ==
    \E k \in 1 .. Len(step_list) : step_list[k].kind # "FlushCommands"

\* C31: the step list that build() produces never starts with FlushCommands,
\* never holds two adjacent FlushCommands steps, and ends with FlushCommands
\* whenever it holds a system, local system or local fn; a builder with only
\* flushes, or with no step, builds the empty step list.
C31_FlushPlacement ==
    [][ (~built /\ built') =>
          /\ steps' # << >> => steps'[1].kind # "FlushCommands"
          /\ \A k \in 1 .. Len(steps') - 1 :
               ~(steps'[k].kind = "FlushCommands" /\ steps'[k + 1].kind = "FlushCommands")
          /\ HasRunnable(steps') => Last(steps').kind = "FlushCommands"
          /\ (\A k \in 1 .. Len(simple_steps) : simple_steps[k].kind = "FlushCommands")
                => steps' = << >>
          /\ (\E k \in 1 .. Len(simple_steps) : simple_steps[k].kind # "FlushCommands")
                => HasRunnable(steps') ]_vars

\* A dispatcher built from a system that no flush follows in the builder,
\* with a flush kept between two stages: the last step is the flush that
\* build() appended.
C31_Witness ==
    /\ built
    /\ Len(steps) = 4
    /\ steps[1].kind = "RunSystems"
    /\ steps[2].kind = "FlushCommands"
    /\ steps[3].kind = "RunLocalFns"
    /\ steps[3].systems[1].id = MaxSteps
    /\ steps[4].kind = "FlushCommands"

\* Steps a .. b of the list hold no flush.
FlushFree(step_list, a, b) ==
    \A k \in a .. b : step_list[k].kind # "FlushCommands"

\* The Commands accesses declared by the systems and local systems of
\* steps a .. b.
RECURSIVE CommandsBetween(_, _, _)
CommandsBetween(step_list, a, b) ==
    IF a > b THEN 0
    ELSE (IF step_list[a].kind \in { "RunSystems", "RunLocalSystems" }
          THEN SumCommands(FlatAccesses(step_list[a].systems)) ELSE 0)
            + CommandsBetween(step_list, a + 1, b)

\* The largest number of Commands accesses in a flush-delimited segment.
SegmentCommands(step_list) ==
    LET sums == { CommandsBetween(step_list, a, b) :
                    << a, b >> \in { ab \in (1 .. Len(step_list)) \X (1 .. Len(step_list)) :
                                       ab[1] <= ab[2] /\ FlushFree(step_list, ab[1], ab[2]) } }
    IN CHOOSE n \in sums \cup { 0 } : \A m \in sums : m <= n

\* This step is a system's borrow that found command_buffers.next() to be
\* None.
BorrowFoundNone ==
    ~panicked /\ panicked' /\ given' # given

\* C32: the number of command buffers of the built dispatcher is the
\* largest number of Commands accesses declared in one flush-delimited
\* segment of its steps; in every run at most that many buffers are taken
\* between two flushes and no borrow finds next() to be None.
C32_EnoughCommandBuffers ==
    /\ [](built => /\ buffer_count = SegmentCommands(steps)
                   /\ next_buffer <= buffer_count)
    /\ [][~BorrowFoundNone]_vars

\* Two systems of two different stages of one segment hold the two buffers
\* of the dispatcher.
C32_Witness ==
    /\ InRun
    /\ buffer_count = 2
    /\ next_buffer = 2
    /\ step_index = 3
    /\ CurrentStep.kind = "RunLocalSystems"
    /\ count_command_buffers(steps[1].systems) = 1
    /\ sys_buffer = << 2 >>

\* C33: destroy_entities(iter) returns the number of distinct entities of
\* iter that were live before the call, and afterwards none of the entities
\* of iter is live or contained in a component storage; entries that were
\* not live, or that repeat an earlier entry, add nothing to the count.
C33_DestroyEntitiesCountsLive ==
    [][ (HostCallOf("destroy_entities") /\ ~panicked') =>
          LET list == call_args'[1] IN
          /\ last_call'.ret = Cardinality(SeqToSet(list) \cap live)
          /\ \A entity \in SeqToSet(list) :
               /\ ~World_contains_entity(world', entity)
               /\ \A c \in Comps : ~TypedStorage_contains(world'.storages.storages[c], entity) ]_vars

\* The offset, in the group array of family f, of the first group that
\* holds the component: the number of groups that do not hold it.
GroupOffsetOf(f, comp) ==
    Cardinality({ k \in 1 .. Len(FamilyArities[f]) : FamilyArities[f][k] <= BitOf(f, comp) })

\* The views of the query all belong to family f and the query's mask is
\* the include mask or the exclude mask of the group at the largest offset
\* among its views.
MatchesGroupOf(f) ==
    /\ (Included \cup Excluded) \subseteq SeqToSet(FamilyComponents[f])
    /\ LET offsets == { GroupOffsetOf(f, comp) : comp \in Included \cup Excluded }
           offset == CHOOSE n \in offsets : \A m \in offsets : m <= n
           group == call_args.families[f][offset + 1]
           mask == QueryMask_new({ BitOf(f, comp) : comp \in Included },
                                 { BitOf(f, comp) : comp \in Excluded })
       IN mask \in { Group_include_mask(group), Group_exclude_mask(group) }

\* The call returned Some(range).
IsRange(ret) == DOMAIN ret = { "start", "end" }

ShortestOfInputs(slice) ==
    /\ \E k \in 1 .. Len(call_args) : call_args[k].entities = slice
    /\ \A k \in 1 .. Len(call_args) : Len(slice) <= Len(call_args[k].entities)

\* C35: shortest_entity_slice returns one of its input slices, of a length
\* less than or equal to that of every input slice, and returns None only
\* for an empty input; the entities that drive a sparse iteration
\* (split_sparse!) are such a slice of minimal length.
C35_ShortestSliceDrives ==
    /\ Len(call_ret) >= 1 =>
         /\ call_ret[1] = None <=> call_args = << >>
         /\ call_ret[1] # None => ShortestOfInputs(call_ret[1].some)
    /\ Len(call_ret) = 2 => ShortestOfInputs(call_ret[2].entities)

\* Three storages, the second of which has the only shortest slice: it is
\* the one returned and the one that drives the sparse iteration.
C35_Witness ==
    /\ Len(call_ret) = 2
    /\ Len(call_args) = 3
    /\ Len(call_args[1].entities) = 2
    /\ Len(call_args[2].entities) = 1
    /\ Len(call_args[3].entities) = 2
    /\ call_ret[2].entities = call_args[2].entities
    /\ call_ret[1] = Some(call_args[2].entities)

\* The counter that thread t's compare-exchange loop works on.
CounterOf(t) ==
    IF tpc[t] = "dec" THEN world.entities.allocator.recycled_len
    ELSE world.entities.allocator.current_id

\* Thread t's compare-exchange failed in this step and its loop goes round.
Retried(t) ==
    /\ tpc[t] \in { "dec", "inc" }
    /\ tpc'[t] = tpc[t]
    /\ tprev'[t] # tprev[t] \/ spurious'[t] # spurious[t]

\* Every call of allocate_atomic returns, or panics for want of entities.
EveryCallReturns ==
    \A t \in Threads : (tpc[t] # "idle") ~> (tpc[t] = "idle" \/ panicked)

\* C36 as stated: a caller of allocate_atomic goes round its compare-and-swap
\* loop only after the counter was updated by another caller, and every call
\* returns after finitely many retries.
C36_RetryOnlyAfterUpdate ==
    /\ [][\A t \in Threads : Retried(t) => CounterOf(t) # tprev[t]]_vars
    /\ EveryCallReturns

\* C36 amended: a caller goes round its loop after the counter was updated
\* by another caller or after a spurious failure of compare_exchange_weak
\* on the unchanged counter, a retry after an update takes the updated
\* value as its new expectation, and with at most MaxSpurious spurious
\* failures per call every call returns.
C36_LockFree ==
    /\ [][\A t \in Threads : Retried(t) =>
            \/ CounterOf(t) # tprev[t] /\ tprev'[t] = CounterOf(t) /\ spurious'[t] = spurious[t]
            \/ CounterOf(t) = tprev[t] /\ tprev'[t] = tprev[t] /\ spurious'[t] = spurious[t] + 1]_vars
    /\ EveryCallReturns

\* A thread is inside its loop after a spurious failure and, since then,
\* another thread has taken the recycled entity it was about to take.
C36_Witness ==
    \E t \in Threads :
        /\ tpc[t] = "dec"
        /\ spurious[t] = MaxSpurious
        /\ tprev[t] # 0
        /\ world.entities.allocator.recycled_len # tprev[t]
        /\ handed # << >>

\* C37: over any sequence of create, create_atomic, maintain and destroy
\* with no clear, no call returns an entity value (index, version) that an
\* earlier call returned; in particular create never hands out a recycled
\* entry that create_atomic has handed out already.
C37_NoEntityIssuedTwice ==
    \A i, j \in 1 .. Len(issued) : i < j => issued[i] # issued[j]

\* C38: in every reachable state of the allocator recycled_len is at most
\* the length of recycled, and the two are equal right after allocate,
\* deallocate, clear and maintain (an exclusive operation has returned and
\* no create_atomic has started since); so the entry recycled[recycled_len - 1]
\* that allocate_atomic reads after a decrement is within bounds.
C38_RecycledLenWithinBounds ==
    LET a == world.entities.allocator IN
    /\ a.recycled_len <= Len(a.recycled)
    /\ (last_call.op # "none" /\ ~panicked /\ AllIdle /\ handed = << >>)
          => a.recycled_len = Len(a.recycled)

\* Every buffer of the dispatcher is empty.
BuffersEmpty(bufs) == \A b \in 1 .. Len(bufs) : bufs[b] = << >>

\* One command was pushed on one buffer.
QueuedOne ==
    \E b \in 1 .. Len(buffers) :
        /\ Len(buffers'[b]) = Len(buffers[b]) + 1
        /\ buffers' = [buffers EXCEPT ![b] = Append(buffers[b], Last(buffers'[b]))]

\* C39: when run_seq or run_par returns, every command that a system queued
\* during the call has been applied exactly once and every command buffer
\* is empty: a command enters one buffer when it is queued, the buffers
\* change otherwise only at a flush, which applies each of their commands
\* once and leaves them empty, a run starts with empty buffers, and none
\* is left at the return.
C39_NoCommandLeftAtReturn ==
    /\ []((run_call # "none" /\ result # "none") => BuffersEmpty(buffers))
    /\ [][ (buffers' # buffers \/ applied' # applied) =>
             \/ /\ QueuedOne
                /\ applied' = applied
             \/ /\ flushed' = flushed + 1
                /\ applied' = applied \o CommandBuffers_drain(buffers)
                /\ BuffersEmpty(buffers')
                /\ Len(buffers') = Len(buffers)
             \/ /\ nruns' = nruns + 1
                /\ BuffersEmpty(buffers)
                /\ buffers' = buffers
                /\ applied' = << >> ]_vars

\* A run has returned after a system of its last stage queued a command:
\* the flush that build() appended applied it.
C39_Witness ==
    /\ run_call # "none"
    /\ result # "none"
    /\ Len(steps) >= 2
    /\ applied # << >>
    /\ Last(applied).stage = Len(steps) - 1
    /\ BuffersEmpty(buffers)

\* The runnables (systems, local systems, local fns) among the builder's
\* steps, in the order added.
IsRunnable(simple_step) == simple_step.kind # "FlushCommands"

Runnables(simple) ==
    LET run == SelectSeq(simple, IsRunnable) IN
    [ k \in 1 .. Len(run) |-> System(run[k]) ]

\* The position among the builder's steps of its k-th runnable.
PositionOf(simple, k) ==
    CHOOSE p \in 1 .. Len(simple) :
        /\ IsRunnable(simple[p])
        /\ Len(SelectSeq(SubSeq(simple, 1, p), IsRunnable)) = k

\* The stage of the step list that holds the k-th of its systems.
StageHolding(step_list, k) ==
    CHOOSE s \in 1 .. Len(step_list) :
        /\ Len(AllSystems(SubSeq(step_list, 1, s - 1))) < k
        /\ k <= Len(AllSystems(SubSeq(step_list, 1, s)))

\* C40: build() keeps the order: the systems, local systems and local fns
\* of the produced stages, taken in stage order, are those of the builder
\* in the order added, the steps appended by merge included (merge appends
\* the other builder's steps in their order and leaves it empty), none is
\* lost or duplicated, and a flush stands between two consecutive runnables
\* of the dispatcher exactly when one was added between them.
C40_BuildKeepsOrder ==
    [][ /\ (~built /\ built') =>
             /\ AllSystems(steps') = Runnables(simple_steps)
             /\ \A k \in 1 .. Len(Runnables(simple_steps)) - 1 :
                  (\E p \in PositionOf(simple_steps, k) .. PositionOf(simple_steps, k + 1) :
                       simple_steps[p].kind = "FlushCommands")
                  <=> (\E s \in StageHolding(steps', k) .. StageHolding(steps', k + 1) :
                           steps'[s].kind = "FlushCommands")
        /\ (~built' /\ call_args' # call_args) =>
             /\ simple_steps' = simple_steps \o call_args'.other
             /\ call_args'.other_after = << >> ]_vars

\* A dispatcher built from a builder into which a builder of two steps, a
\* flush and a system, was merged between two of its own steps: the merged
\* system stands in its place, after the flush.
C40_Witness ==
    /\ built
    /\ call_args # << >>
    /\ Len(call_args.other) = 2
    /\ call_args.other[1] = SimpleFlush
    /\ Len(AllSystems(steps)) = 3
    /\ AllSystems(steps)[1].id = 1
    /\ AllSystems(steps)[2].id = MaxSteps + 2
    /\ AllSystems(steps)[3].id = 4
    /\ steps[2].kind = "FlushCommands"

====
